---------------------------- MODULE Spec2Model ----------------------------
(***************************************************************************)
(* GPA Lernapp (src/app.py): the attempt log, the mastery estimate         *)
(* (compute_profile) and the quiz flow that one browser session runs in    *)
(* st.session_state.                                                       *)
(*                                                                         *)
(* The specifications share the variables:                                 *)
(*   Spec         the app: sidebar, flow starts, answers, teacher saves    *)
(*   ProfileSpec  the attempt recorder fed with arbitrary items, for the   *)
(*                claims about compute_profile over all attempt histories  *)
(*   AnswerSpec   the form of a short or an ordering item submitted, for   *)
(*                the claims about the scoring of answers                  *)
(*   SharedSpec   the app with two browser sessions on one data base       *)
(*   SelectSpec   the selection functions called once with an item bank,   *)
(*                a seen-set, a level and a count, for the claims about    *)
(*                selection over all item banks                            *)
(*   LiveSpec     one session whose student keeps answering, with weak     *)
(*                fairness of the valid answers, for the claim that every  *)
(*                flow ends                                                *)
(*   MixSpec      pick_practice_sequence called once with a bank of many   *)
(*                item types, for the claim about the mix of types         *)
(***************************************************************************)
EXTENDS Integers, Sequences, FiniteSets, TLC

(***************************************************************************)
(* Bounds of the model                                                     *)
(***************************************************************************)
\* attempt rows a behaviour of Spec may add to the rows the data base holds at start
MaxRows == 2
\* length of the attempt histories of ProfileSpec
MaxHist == 6
\* rows a behaviour of Spec may add to the table materials
MaxMaterials == 1
\* script runs of one session in a behaviour of Spec
MaxRuns == 5
\* items of an item bank of SelectSpec
MaxBank == 3
\* script runs of the two sessions together in a behaviour of SharedSpec
MaxShared == 4
\* steps of an ordering item of AnswerSpec
MaxSteps == 4
\* quiz items of an item bank of MixSpec
MaxMix == 6

(***************************************************************************)
(* Floating point.  compute_profile adds the weights 1.0, 1.3 and 1.7 in   *)
(* IEEE-754 doubles and divides.  Every double that occurs is a sum of     *)
(* these three, so it is written exactly as                                *)
(*      t/10 + e * U        with U = 2^-52 / 5                             *)
(* t: the sum in tenths as the reals give it, e: the rounding error so     *)
(* far.  1.0 = (10,0), the double 1.3 = (13,+1), the double 1.7 = (17,-1). *)
(* A double in [2^k, 2^(k+1)) is a multiple of 2^(k-52) = 5*2^k*U, which   *)
(* for t/10 + e*U says  e = 0 (mod 2^k)  and  3t + e = 0 (mod 5)           *)
(* (2^51 = 3 mod 5); its mantissa is even iff e = 0 (mod 2^(k+1)).         *)
(***************************************************************************)
RECURSIVE Pow2(_)
Pow2(k) == IF k = 0 THEN 1 ELSE 2 * Pow2(k - 1)

Sgn(x) == IF x > 0 THEN 1 ELSE IF x < 0 THEN -1 ELSE 0

FZero == [t |-> 0, e |-> 0]

\* the binary exponent k of the exact sum t/10 + e*U >= 1:  2^k <= sum < 2^(k+1)
RECURSIVE Binade(_, _, _)
Binade(t, e, k) ==
    IF t > 10 * Pow2(k + 1) \/ (t = 10 * Pow2(k + 1) /\ e >= 0)
    THEN Binade(t, e, k + 1)
    ELSE k

\* x + y in doubles: the exact sum rounded to the nearest double, ties to the
\* even mantissa
FAdd(x, y) ==
    IF x.t = 0 THEN y ELSE
    IF y.t = 0 THEN x ELSE
    LET t    == x.t + y.t
        e    == x.e + y.e
        k    == Binade(t, e, 0)
        step == 5 * Pow2(k)
        j    == CHOOSE i \in 0..4 : (Pow2(k) * i + 3 * t) % 5 = 0
        lo   == e - ((e - Pow2(k) * j) % step)
        d    == e - lo
        r    == IF d = 0 THEN e
                ELSE IF 2 * d < step THEN lo
                ELSE IF 2 * d > step THEN lo + step
                ELSE IF lo % Pow2(k + 1) = 0 THEN lo ELSE lo + step
    IN  [t |-> t, e |-> r]

\* num/den rounded to the nearest integer; on a tie the exact value lies below
\* (bias < 0) or above (bias > 0) the tie, or on it, and then the integer k with
\* par0 + k even is taken (the even mantissa)
RoundK(num, den, par0, bias) ==
    LET fl  == num \div den
        rem == num - fl * den
    IN  IF 2 * rem < den THEN fl
        ELSE IF 2 * rem > den THEN fl + 1
        ELSE IF bias < 0 THEN fl
        ELSE IF bias > 0 THEN fl + 1
        ELSE IF (par0 + fl) % 2 = 0 THEN fl ELSE fl + 1

\* the binade of n/200 < 1:  2^-j <= n/200 < 2^(1-j)
RECURSIVE BinadeBelowOne(_, _)
BinadeBelowOne(n, j) == IF n * Pow2(j - 1) < 100 THEN BinadeBelowOne(n, j + 1) ELSE j

(***************************************************************************)
(* The sign of  fl(c / w) - n/200,  fl the correctly rounded quotient of   *)
(* the doubles c and w (0 < n < 200, c <= w).  When c.t/w.t differs from   *)
(* n/200 the reals decide (the rounding errors are below 2^-45).  When it  *)
(* equals n/200 the quotient is n/200 + delta with                         *)
(*    delta = U * (c.e - (n/200) * w.e) / w                                *)
(* and is rounded on the grid of doubles around n/200, whose spacing is    *)
(* 25 units of U/(5*2^j) and on which n/200 sits r units above a double.   *)
(***************************************************************************)
Cmp(c, w, n) ==
    IF c.t = 0 THEN -1
    ELSE IF 200 * c.t # n * w.t THEN Sgn(200 * c.t - n * w.t)
    ELSE
    LET j    == BinadeBelowOne(n, 1)
        z    == Pow2(8 + j) % 25
        r2   == 2 * ((n * z) % 25)
        r    == r2 % 25
        par0 == IF r2 >= 25 THEN 1 ELSE 0
        a    == Pow2(j) * (200 * c.e - n * w.e)
        b    == 4 * w.t
        bias == 0 - (Sgn(a) * Sgn(w.e))
    IN  IF r # 0
        THEN IF RoundK(a + r * b, 25 * b, par0, bias) >= 1 THEN 1 ELSE -1
        ELSE IF n * Pow2(j - 1) = 100 /\ a < 0
             THEN Sgn(RoundK(2 * a, 25 * b, 0, bias))
             ELSE Sgn(RoundK(a, 25 * b, par0, bias))

\* round(c / w, 2) in hundredths: Python rounds the double's exact value, half
\* to even
Round2(c, w) ==
    IF c.t = 0 THEN 0
    ELSE
    LET h == (200 * c.t) \div w.t
    IN  IF h * w.t = 200 * c.t /\ h % 2 = 1
        THEN LET s  == Cmp(c, w, h)
                 dn == (h - 1) \div 2
             IN  IF s < 0 THEN dn
                 ELSE IF s > 0 THEN dn + 1
                 ELSE IF dn % 2 = 0 THEN dn ELSE dn + 1
        ELSE (h + 1) \div 2

(***************************************************************************)
(* Configuration (src/app.py 19-57)                                        *)
(***************************************************************************)
\* the mutation: every difficulty has the weight 1.0
WeightsUnweighted(d) == [t |-> 10, e |-> 0]

\* WEIGHTS = {1: 1.0, 2: 1.3, 3: 1.7}, and WEIGHTS.get(d, 1.0)
WEIGHTS(d) ==
    IF d = 2 THEN [t |-> 13, e |-> 1]
    ELSE IF d = 3 THEN [t |-> 17, e |-> 0 - 1]
    ELSE [t |-> 10, e |-> 0]

LEARN_FIELDS == <<"LF1", "LF2", "LF3", "LF4", "LF5", "LF6", "LF7", "LF8", "LF9", "LF10">>

GLOBAL_DOMAINS == <<"SPR", "KOG", "META", "MOT">>

\* GLOBAL_DOMAINS and LF_DOMAINS: the key of a mastery record is (field, domain)
GLOBAL == "GLOBAL"
FACH == "FACH"

\* a value no row, text or answer takes: Python's None
None == "None"

(***************************************************************************)
(* Items.  An item is a record; fields a type does not use are empty.      *)
(* Texts (keywords, answers to short items) are sequences of characters.   *)
(***************************************************************************)
Item(id, field, domain, difficulty, type, topic) ==
    [id |-> id, field |-> field, domain |-> domain, difficulty |-> difficulty,
     type |-> type, topic |-> topic,
     options |-> <<>>, answer |-> 0, steps |-> <<>>, correct_order |-> <<>>,
     pairs |-> <<>>, keywords |-> <<>>, min |-> 1, max |-> 5]

Range(seq) == {seq[i] : i \in 1..Len(seq)}

\* the four options of a quiz or cloze item, the right one first (answer=0)
Options4 == <<"opt0", "opt1", "opt2", "opt3">>

\* GLOBAL_ITEMS = global_items(): ids "{dom}_{position:04d}", field GLOBAL,
\* difficulty 1, topic = the domain
GLOBAL_ITEMS ==
    <<[Item("SPR_0001", GLOBAL, "SPR", 1, "mcq", "SPR") EXCEPT !.options = Options4],
      [Item("SPR_0002", GLOBAL, "SPR", 1, "cloze", "SPR") EXCEPT !.options = Options4],
      [Item("SPR_0003", GLOBAL, "SPR", 1, "short", "SPR") EXCEPT !.keywords =
        <<<<"i", "c", "h">>,
          <<"h", "e", "l", "f", "e">>,
          <<"w", "a", "s", "c", "h", "e", "n">>,
          <<"j", "e", "t", "z", "t">>,
          <<"b", "i", "t", "t", "e">>,
          <<"s", "a", "g", "e", "n">>>>],
      [Item("KOG_0004", GLOBAL, "KOG", 1, "order", "KOG") EXCEPT
          !.steps = <<"step0", "step1", "step2", "step3">>,
          !.correct_order = <<0, 1, 2, 3>>],
      [Item("KOG_0005", GLOBAL, "KOG", 1, "mcq", "KOG") EXCEPT !.options = Options4],
      [Item("KOG_0006", GLOBAL, "KOG", 1, "short", "KOG") EXCEPT !.keywords =
        <<<<"s", "t", "u", "r", "z">>,
          <<"s", "i", "c", "h", "e", "r", "h", "e", "i", "t">>,
          <<"z", "u", "e", "r", "s", "t">>,
          <<"w", "e", "i", "l">>>>],
      [Item("META_0007", GLOBAL, "META", 1, "mcq", "META") EXCEPT !.options = Options4],
      [Item("META_0008", GLOBAL, "META", 1, "mcq", "META") EXCEPT !.options = Options4],
      Item("META_0009", GLOBAL, "META", 1, "scale", "META"),
      Item("MOT_0010", GLOBAL, "MOT", 1, "scale", "MOT"),
      [Item("MOT_0011", GLOBAL, "MOT", 1, "mcq", "MOT") EXCEPT !.options = Options4],
      [Item("MOT_0012", GLOBAL, "MOT", 1, "short", "MOT") EXCEPT !.keywords =
        <<<<"i", "c", "h">>,
          <<"w", "e", "r", "d", "e">>,
          <<"d", "i", "e", "s", "e">>,
          <<"w", "o", "c", "h", "e">>>>]>>

\* lf_items = load_items(ci): the item bank of the learn fields.  LF1 has a
\* quiz, a matching item and a case of one topic, LF2 an ordering item without
\* topic, the other learn fields have no item.
lf_items ==
    <<[Item("LF1_0001", "LF1", FACH, 1, "mcq", "T1") EXCEPT !.options = Options4],
      [Item("LF1_0002", "LF1", FACH, 2, "match", "T1") EXCEPT
          !.pairs = <<<<"left0", "right0">>, <<"left1", "right1">>>>],
      [Item("LF1_0003", "LF1", FACH, 3, "case", "T1") EXCEPT !.options = Options4],
      [Item("LF2_0001", "LF2", FACH, 2, "order", "") EXCEPT
          !.steps = <<"step0", "step1">>, !.correct_order = <<1, 0>>]>>

(***************************************************************************)
(* Data base (gpa_app_data.db): ensure_data_tables, upsert_user,           *)
(* log_attempt, get_attempts                                               *)
(***************************************************************************)
VARIABLES
    attempts,       \* table attempts: the rows in attempt_id order
    users,          \* table users: user_id -> the row of the user
    topic_texts,    \* table topic_texts: (field_id, topic, level) -> text
    materials,      \* table materials: the rows in material_id order
    sidebar,        \* per session: the widgets "Rolle" and "Kuerzel/ID"
    session_state,  \* per session: st.session_state (flow_items, flow_i, ...)
    run_log,        \* per session, history: the number of script runs, the
                    \* flow's last step, the items it was started with, the
                    \* items logged since, whether an answer was turned away
                    \* and the rows the session wrote with an upsert
    selection       \* SelectSpec: the item bank, the arguments a selection
                    \* function was called with and what it returned

vars == <<attempts, users, topic_texts, materials, sidebar, session_state, run_log,
          selection>>

CLASS_CODE == "GPA-TEST"

\* the mutation: the row is written twice
log_attempt_twice(tbl, user_id, class_code, item, correct) ==
    LET row == [user_id |-> user_id, class_code |-> class_code, item_id |-> item.id,
                field_id |-> item.field, domain_id |-> item.domain,
                difficulty |-> item.difficulty,
                correct |-> IF correct THEN 1 ELSE 0]
    IN  Append(Append(tbl, row), row)

\* the mutation: the difficulty of the item is not stored
log_attempt_default_difficulty(tbl, user_id, class_code, item, correct) ==
    Append(tbl, [user_id |-> user_id, class_code |-> class_code, item_id |-> item.id,
                 field_id |-> item.field, domain_id |-> item.domain,
                 difficulty |-> 1,
                 correct |-> IF correct THEN 1 ELSE 0])

\* the mutation: the row replaces the last row
log_attempt_overwrite(tbl, user_id, class_code, item, correct) ==
    LET row == [user_id |-> user_id, class_code |-> class_code, item_id |-> item.id,
                field_id |-> item.field, domain_id |-> item.domain,
                difficulty |-> item.difficulty,
                correct |-> IF correct THEN 1 ELSE 0]
    IN  IF tbl = <<>> THEN <<row>> ELSE [tbl EXCEPT ![Len(tbl)] = row]

\* INSERT INTO attempts(...): one row appended, attempt_id = its position
log_attempt(tbl, user_id, class_code, item, correct) ==
    Append(tbl, [user_id |-> user_id, class_code |-> class_code, item_id |-> item.id,
                 field_id |-> item.field, domain_id |-> item.domain,
                 difficulty |-> item.difficulty,
                 correct |-> IF correct THEN 1 ELSE 0])

RECURSIVE Reverse(_)
Reverse(s) == IF s = <<>> THEN <<>> ELSE Append(Reverse(Tail(s)), Head(s))

\* SELECT * FROM attempts [WHERE user_id=? [AND class_code=?]] ORDER BY attempt_id
\* DESC; a condition is left out when its argument is None
get_attempts(tbl, user_id, class_code) ==
    Reverse(SelectSeq(tbl, LAMBDA r :
        /\ (user_id = None \/ r.user_id = user_id)
        /\ (class_code = None \/ r.class_code = class_code)))

\* INSERT INTO users ... ON CONFLICT(user_id) DO UPDATE SET role, display_name,
\* class_code
upsert_user(tbl, user_id, role, display_name, class_code) ==
    [u \in DOMAIN tbl \cup {user_id} |->
        IF u = user_id
        THEN [role |-> role, display_name |-> display_name, class_code |-> class_code]
        ELSE tbl[u]]

\* SELECT text FROM topic_texts WHERE field_id=? AND topic=? AND level=?
get_topic_text(tbl, field_id, topic, level) ==
    IF <<field_id, topic, level>> \in DOMAIN tbl
    THEN tbl[<<field_id, topic, level>>] ELSE None

\* INSERT INTO topic_texts ... ON CONFLICT(field_id, topic, level) DO UPDATE SET text
upsert_topic_text(tbl, field_id, topic, level, text) ==
    [k \in DOMAIN tbl \cup {<<field_id, topic, level>>} |->
        IF k = <<field_id, topic, level>> THEN text ELSE tbl[k]]

\* INSERT INTO materials(...): one row appended, material_id = its position
save_material(tbl, uploader_user_id, class_code, title, field_id, filename) ==
    Append(tbl, [uploader_user_id |-> uploader_user_id, class_code |-> class_code,
                 title |-> title, field_id |-> field_id, filename |-> filename])

(***************************************************************************)
(* Analytics: compute_profile                                              *)
(***************************************************************************)
RowKey(r) == <<r.field_id, r.domain_id>>

\* the mutation: the rows are not grouped by key
RECURSIVE AggAllKeys(_, _, _)
AggAllKeys(df, key, i) ==
    IF i = 0 THEN [w |-> FZero, c |-> FZero, n |-> 0]
    ELSE LET prev == AggAllKeys(df, key, i - 1)
             w    == WEIGHTS(df[i].difficulty)
         IN  [w |-> FAdd(prev.w, w),
              c |-> FAdd(prev.c, IF df[i].correct = 1 THEN w ELSE FZero),
              n |-> prev.n + 1]

\* agg[key] after the loop over the first i rows of df: w, c in doubles, n
RECURSIVE Agg(_, _, _)
Agg(df, key, i) ==
    IF i = 0 THEN [w |-> FZero, c |-> FZero, n |-> 0]
    ELSE LET prev == Agg(df, key, i - 1)
             r    == df[i]
             w    == WEIGHTS(r.difficulty)
         IN  IF RowKey(r) # key THEN prev
             ELSE [w |-> FAdd(prev.w, w),
                   c |-> FAdd(prev.c, IF r.correct = 1 THEN w ELSE FZero),
                   n |-> prev.n + 1]

\* lvl = 1 if acc < 0.45 else (2 if acc < 0.75 else 3), acc = c / w in doubles
LevelOf(c, w) ==
    IF Cmp(c, w, 90) < 0 THEN 1 ELSE IF Cmp(c, w, 150) < 0 THEN 2 ELSE 3

\* the profile: key -> [accuracy (in hundredths), level, n], over the keys of df
compute_profile(df) ==
    LET keys == {RowKey(df[i]) : i \in 1..Len(df)}
    IN  [key \in keys |->
            LET v == Agg(df, key, Len(df))
            IN  [accuracy |-> Round2(v.c, v.w), level |-> LevelOf(v.c, v.w), n |-> v.n]]

\* prof.get(key, {"level":1,"accuracy":0.0,"n":0}): the record the views show
DefaultRecord == [accuracy |-> 0, level |-> 1, n |-> 0]

ProfileGet(prof, key) == IF key \in DOMAIN prof THEN prof[key] ELSE DefaultRecord

(***************************************************************************)
(* Selection: infer_language_level, pick_topic_for_practice,               *)
(* pick_practice_sequence, pick_global, pick_lf.  A function that draws    *)
(* random numbers is the set of the results it can return.                 *)
(***************************************************************************)
Min(a, b) == IF a < b THEN a ELSE b
Max(a, b) == IF a > b THEN a ELSE b
Abs(x) == IF x < 0 THEN 0 - x ELSE x

\* random.sample(cand, k): k different elements of cand in any arrangement
Sample(cand, k) ==
    {[i \in 1..k |-> cand[q[i]]] :
        q \in {f \in [1..k -> 1..Len(cand)] : \A i, j \in 1..k : i # j => f[i] # f[j]}}

infer_language_level(profile, easy_mode) ==
    IF easy_mode THEN 1
    ELSE LET lvl == IF <<GLOBAL, "SPR">> \in DOMAIN profile
                    THEN profile[<<GLOBAL, "SPR">>].level ELSE 2
         IN  Max(1, Min(3, lvl))

\* the mutation: the field of the item is not compared
IsFachOfAnyField(it, field_id) == it.domain = FACH

IsFach(it, field_id) == it.field = field_id /\ it.domain = FACH

\* the topic of the field with the lowest mean of correct (then the most rows)
\* among the student's rows of the field, a random topic of the field if
\* there is none
pick_topic_for_practice(items, attempts_df, field_id) ==
    LET cand == {it.topic : it \in {x \in Range(items) : IsFach(x, field_id)}} \ {""}
        a    == SelectSeq(attempts_df, LAMBDA r : r.field_id = field_id)
        topicOf(r) ==
            LET its == {x \in Range(items) : x.field = field_id /\ x.id = r.item_id}
            IN  IF its = {} THEN "" ELSE (CHOOSE x \in its : TRUE).topic
        rows   == {i \in 1..Len(a) : topicOf(a[i]) # ""}
        tps    == {topicOf(a[i]) : i \in rows}
        n(tp)  == Cardinality({i \in rows : topicOf(a[i]) = tp})
        c(tp)  == Cardinality({i \in rows : topicOf(a[i]) = tp /\ a[i].correct = 1})
        weakest == {tp \in tps : \A o \in tps :
                       \/ c(tp) * n(o) < c(o) * n(tp)
                       \/ c(tp) * n(o) = c(o) * n(tp) /\ n(tp) >= n(o)}
    IN  IF cand = {} THEN {"Allgemein"}
        ELSE IF rows = {} THEN cand
        ELSE UNION {IF tp \in cand THEN {tp} ELSE cand : tp \in weakest}

\* score(it) without the random part, in tenths: dist + penalty
BaseScore(it, target, seen) ==
    10 * Abs(it.difficulty - target) + (IF it.id \in seen THEN 6 ELSE 0)

\* sorted(seq, key=score): the random part of a score is below 0.2, so an
\* element stands before another only if its base score is less than 0.2 above
SortedByScore(seq, target, seen) ==
    {[i \in 1..Len(seq) |-> seq[q[i]]] :
        q \in {f \in [1..Len(seq) -> 1..Len(seq)] :
                 /\ \A i, j \in 1..Len(seq) : i # j => f[i] # f[j]
                 /\ \A i, j \in 1..Len(seq) : i < j =>
                       BaseScore(seq[f[i]], target, seen)
                         < BaseScore(seq[f[j]], target, seen) + 2}}

\* the mutation: the first loop skips no item
PickInOrder(non_cases, i, picked, used_types, need) ==
    SubSeq(non_cases, 1, Min(need, Len(non_cases)))

\* first loop: an item whose type is used already is skipped while fewer than
\* four types are used
RECURSIVE PickByType(_, _, _, _, _)
PickByType(non_cases, i, picked, used_types, need) ==
    IF i > Len(non_cases) \/ Len(picked) >= need THEN picked
    ELSE IF non_cases[i].type \in used_types /\ Cardinality(used_types) < 4
    THEN PickByType(non_cases, i + 1, picked, used_types, need)
    ELSE PickByType(non_cases, i + 1, Append(picked, non_cases[i]),
                    used_types \cup {non_cases[i].type}, need)

\* second loop: fill up with the items that were skipped
RECURSIVE FillUp(_, _, _, _)
FillUp(non_cases, i, picked, need) ==
    IF i > Len(non_cases) \/ Len(picked) >= need THEN picked
    ELSE IF non_cases[i] \in Range(picked)
    THEN FillUp(non_cases, i + 1, picked, need)
    ELSE FillUp(non_cases, i + 1, Append(picked, non_cases[i]), need)

\* the mutation: the default of the target level is 2
PracticeTargetDefault2(profile, field_id) ==
    Max(1, Min(3, IF <<field_id, FACH>> \in DOMAIN profile
                  THEN profile[<<field_id, FACH>>].level ELSE 2))

\* the target level: profile.get((field_id, "FACH"), {}).get("level", 1)
PracticeTarget(profile, field_id) ==
    Max(1, Min(3, IF <<field_id, FACH>> \in DOMAIN profile
                  THEN profile[<<field_id, FACH>>].level ELSE 1))

pick_practice_sequence(items, profile, attempts_df, field_id, topic, k) ==
    LET seen   == {attempts_df[i].item_id : i \in 1..Len(attempts_df)}
        ofTopic == SelectSeq(items, LAMBDA it : IsFach(it, field_id) /\ it.topic = topic)
        pool   == IF ofTopic # <<>> THEN ofTopic
                  ELSE SelectSeq(items, LAMBDA it : IsFach(it, field_id))
        target == PracticeTarget(profile, field_id)
        cases  == SelectSeq(pool, LAMBDA it : it.type = "case")
        non_cases == SelectSeq(pool, LAMBDA it : it.type # "case")
        need   == Max(1, k - 1)
        pickedOf(sorted) ==
            FillUp(sorted, 1, PickByType(sorted, 1, <<>>, {}, need), need)
        lastOf(picked) ==
            IF cases # <<>>
            THEN {s[1] : s \in SortedByScore(cases, target, seen)}
            ELSE LET rest == {it \in Range(pool) : it \notin Range(picked)}
                 IN  {it \in rest : \A o \in rest :
                         \/ it.difficulty > o.difficulty
                         \/ /\ it.difficulty = o.difficulty
                            /\ BaseScore(it, target, seen) < BaseScore(o, target, seen) + 2}
        withLast(picked) ==
            IF lastOf(picked) = {} THEN {picked}
            ELSE {Append(SubSeq(picked, 1, Min(need, Len(picked))), last) :
                     last \in lastOf(picked)}
    IN  IF pool = <<>> THEN {<<>>}
        ELSE {SubSeq(p, 1, Min(k, Len(p))) :
                 p \in UNION {withLast(pickedOf(sorted)) :
                                 sorted \in SortedByScore(non_cases, target, seen)}}

pick_global(dom, n) ==
    LET cand == SelectSeq(GLOBAL_ITEMS, LAMBDA it : it.domain = dom)
    IN  Sample(cand, Min(n, Len(cand)))

pick_lf(items, field_id, n) ==
    LET cand == SelectSeq(items, LAMBDA it : IsFach(it, field_id))
    IN  IF cand # <<>> THEN Sample(cand, Min(n, Len(cand))) ELSE {<<>>}

\* random.random()*0.2 in hundredths: as many values below 0.2 as a pool of an
\* item bank can have items, so that every order of equal scores occurs
JitterValues == {5 * j : j \in 0..(MaxBank - 1)}

\* the mutation: the list is not sorted
Unsorted(seq, key) == seq

\* list.sort(key=...): ascending and stable; key[i] is the key of seq[i]
SortedByKey(seq, key) ==
    LET pos(i) == 1 + Cardinality({j \in 1..Len(seq) :
                          key[j] < key[i] \/ (key[j] = key[i] /\ j < i)})
    IN  [p \in 1..Len(seq) |-> seq[CHOOSE i \in 1..Len(seq) : pos(i) = p]]

\* the target level of pick_adaptive: not clamped
AdaptiveTarget(profile, field_id) ==
    IF <<field_id, FACH>> \in DOMAIN profile THEN profile[<<field_id, FACH>>].level ELSE 1

\* the mutation: chosen is the whole sorted pool, not pool[:k]
pick_adaptive_uncut(items, profile, field_id, seen, k, rnd) ==
    LET target == AdaptiveTarget(profile, field_id)
        pool   == SelectSeq(items, LAMBDA it : IsFach(it, field_id))
        score  == [i \in 1..Len(pool) |-> 10 * BaseScore(pool[i], target, seen) + rnd[i]]
    IN  SortedByKey(pool, score)

\* pick_adaptive when random.random()*0.2 returns rnd[i] for the i-th item of
\* the pool; scores in hundredths
pick_adaptive_with(items, profile, field_id, seen, k, rnd) ==
    LET target == AdaptiveTarget(profile, field_id)
        pool   == SelectSeq(items, LAMBDA it : IsFach(it, field_id))
        score  == [i \in 1..Len(pool) |-> 10 * BaseScore(pool[i], target, seen) + rnd[i]]
        sorted == SortedByKey(pool, score)
    IN  SubSeq(sorted, 1, Min(k, Len(sorted)))

\* the results pick_adaptive can return
pick_adaptive(items, profile, field_id, seen, k) ==
    LET n == Len(SelectSeq(items, LAMBDA it : IsFach(it, field_id)))
    IN  {pick_adaptive_with(items, profile, field_id, seen, k, rnd) :
            rnd \in [1..n -> JitterValues]}

(***************************************************************************)
(* Rendering: render_item.  A response is what the widgets of the form     *)
(* hold when "Weiter" is pressed; a select box left on its placeholder     *)
(* holds None.                                                             *)
(***************************************************************************)
\* the mutation: the position is counted from 1
IndexFromOne(seq, x) == CHOOSE i \in 1..Len(seq) : seq[i] = x /\ \A j \in 1..(i - 1) : seq[j] # x

\* list.index: the position (from 0) of the first element equal to x
IndexOf(seq, x) == (CHOOSE i \in 1..Len(seq) :
                       seq[i] = x /\ \A j \in 1..(i - 1) : seq[j] # x) - 1

\* str.lower on the letters the answers are written with
LowerChar(ch) ==
    CASE ch = "N" -> "n" [] ch = "S" -> "s" [] ch = "I" -> "i" [] ch = "J" -> "j"
      [] ch = "G" -> "g" [] ch = "M" -> "m" [] ch = "H" -> "h" [] ch = "W" -> "w"
      [] OTHER -> ch

Lower(txt) == [i \in 1..Len(txt) |-> LowerChar(txt[i])]

\* the mutation: kw is looked for at the start of txt only
ContainsAtStart(txt, kw) == Len(kw) <= Len(txt) /\ SubSeq(txt, 1, Len(kw)) = kw

\* kw in txt: kw is a substring of txt
Contains(txt, kw) ==
    \E i \in 0..(Len(txt) - Len(kw)) : SubSeq(txt, i + 1, i + Len(kw)) = kw

RECURSIVE LStrip(_)
LStrip(txt) == IF txt # <<>> /\ Head(txt) = " " THEN LStrip(Tail(txt)) ELSE txt

RECURSIVE RStrip(_)
RStrip(txt) ==
    IF txt # <<>> /\ txt[Len(txt)] = " " THEN RStrip(SubSeq(txt, 1, Len(txt) - 1)) ELSE txt

Strip(txt) == RStrip(LStrip(txt))

\* the texts typed into the text area of a short item
ShortTexts == {<<>>, <<"N", "i", "c", "h", "t">>, <<"S", "t", "u", "r", "z">>}

ChoiceTypes == {"mcq", "case", "pattern", "cloze"}

Lefts(item) == {item.pairs[i][1] : i \in 1..Len(item.pairs)}
Rights(item) == {item.pairs[i][2] : i \in 1..Len(item.pairs)}

\* every response the form of the item can be submitted with
Responses(item) ==
    IF item.type \in ChoiceTypes
    THEN {[choice |-> ch] : ch \in Range(item.options) \cup {None}}
    ELSE IF item.type = "order"
    THEN {[order_steps |-> f] :
             f \in [1..Len(item.steps) -> Range(item.steps) \cup {None}]}
    ELSE IF item.type = "match"
    THEN {[match |-> g] : g \in [Lefts(item) -> Rights(item) \cup {None}]}
    ELSE IF item.type = "scale"
    THEN {[value |-> v] : v \in (item.min)..(item.max)}
    ELSE {[text |-> txt] : txt \in ShortTexts}

\* render_item returned None (after a warning)
Rejected == [accepted |-> FALSE, correct |-> FALSE]

\* render_item returned {"correct": correct, "response": response}
Accepted(correct) == [accepted |-> TRUE, correct |-> correct]

\* the mutation: a response with a placeholder left is scored, not turned away
render_item_scores_placeholders(item, response) ==
    IF item.type \in ChoiceTypes
    THEN Accepted(response.choice # None
                  /\ IndexOf(item.options, response.choice) = item.answer)
    ELSE IF item.type = "order"
    THEN Accepted(\A i \in 1..Len(item.steps) :
                      response.order_steps[i] = item.steps[item.correct_order[i] + 1])
    ELSE IF item.type = "match"
    THEN Accepted(\A i \in 1..Len(item.pairs) :
                      response.match[item.pairs[i][1]] = item.pairs[i][2])
    ELSE Accepted(TRUE)

\* the evaluation of a submitted form: lines 588-633
render_item(item, response) ==
    IF item.type \in ChoiceTypes
    THEN IF response.choice = None
         THEN Rejected
         ELSE Accepted(IndexOf(item.options, response.choice) = item.answer)
    ELSE IF item.type = "order"
    THEN LET chosen == response.order_steps
         IN  IF \E i \in 1..Len(chosen) : chosen[i] = None
             THEN Rejected
             ELSE IF Cardinality(Range(chosen)) # Len(chosen)
             THEN Rejected
             ELSE Accepted([i \in 1..Len(chosen) |-> IndexOf(item.steps, chosen[i])]
                           = item.correct_order)
    ELSE IF item.type = "match"
    THEN IF \E left \in DOMAIN response.match : response.match[left] = None
         THEN Rejected
         ELSE Accepted(\A i \in 1..Len(item.pairs) :
                           response.match[item.pairs[i][1]] = item.pairs[i][2])
    ELSE IF item.type = "short"
    THEN LET txt  == Lower(response.text)
             kws  == item.keywords
             hits == Cardinality({i \in 1..Len(kws) : Contains(txt, Lower(kws[i]))})
             least == IF Len(kws) \div 4 > 1 THEN Len(kws) \div 4 ELSE 1
         IN  Accepted(IF kws # <<>> THEN hits >= least ELSE Len(Strip(txt)) > 10)
    ELSE Accepted(TRUE)

(***************************************************************************)
(* Sessions.  A browser session has the sidebar widgets and                *)
(* st.session_state; the tables are shared.                                *)
(***************************************************************************)
Sessions == {"s1", "s2"}

\* st.session_state.get("flow_items", []), .get("flow_i", 0), ...: a key that
\* was never set reads as its default
FreshSessionState ==
    [flow_items |-> <<>>, flow_i |-> 0, flow_mode |-> None, flow_field |-> None,
     flow_dom |-> None, practice_topic |-> None, practice_lang_level |-> 0,
     auto_student_id |-> None]

\* default_uid of a role
DefaultUid(role) == IF role = "student" THEN "demo_schueler" ELSE "demo_lehrkraft"

\* the widgets' defaults: role "Schueler:in" and its default id
FreshSidebar == [role |-> "student", uid_input |-> DefaultUid("student")]

FreshRunLog ==
    [runs |-> 0, op |-> "none", items |-> <<>>, logged |-> <<>>, warned |-> FALSE,
     wrote |-> {}]

\* no selection function was called yet with the item bank
NoSelection(items) ==
    [fn |-> "none", items |-> items, profile |-> << >>, field_id |-> None,
     topic |-> None, seen |-> {}, k |-> 0, jitter0 |-> FALSE, result |-> <<>>]

InitWith(stored) ==
    /\ selection = NoSelection(lf_items)
    /\ attempts = stored
    /\ users = [u \in {stored[i].user_id : i \in 1..Len(stored)} |->
                   [role |-> "student", display_name |-> "", class_code |-> CLASS_CODE]]
    /\ topic_texts = << >>
    /\ materials = << >>
    /\ sidebar = [s \in Sessions |-> FreshSidebar]
    /\ session_state = [s \in Sessions |-> FreshSessionState]
    /\ run_log = [s \in Sessions |-> FreshRunLog]

(***************************************************************************)
(* The app: one action is one run of the script, from the sidebar to the   *)
(* widget that caused it.  Every run resolves the user id and calls        *)
(* upsert_user; st.rerun() ends the run, and the run it starts has no      *)
(* effect of its own.                                                      *)
(***************************************************************************)
\* the data base at start: student u1 has answered seven GLOBAL items earlier
StoredCorrect == <<TRUE, TRUE, FALSE, FALSE, TRUE, TRUE, TRUE>>

RECURSIVE StoredUpTo(_)
StoredUpTo(i) ==
    IF i = 0 THEN <<>>
    ELSE log_attempt(StoredUpTo(i - 1), "u1", CLASS_CODE, GLOBAL_ITEMS[i], StoredCorrect[i])

StoredAttempts == StoredUpTo(Len(StoredCorrect))

Init == InitWith(StoredAttempts)

\* the session whose widgets are operated
Active == {"s1"}

\* f"S-{random.randint(100000,999999)}"
AutoIds == {"S-100000"}

\* what is typed into "Kuerzel/ID"
UidInputs == {"u1"}

Roles == {"student", "teacher"}

\* lines 656-666: the user id of the run and auto_student_id after it
Logins(sb, ss) ==
    IF sb.role = "student"
    THEN IF sb.uid_input = "" \/ sb.uid_input = "demo_schueler"
         THEN {[user_id |-> a, auto |-> a] :
                  a \in IF ss.auto_student_id = None THEN AutoIds
                        ELSE {ss.auto_student_id}}
         ELSE {[user_id |-> sb.uid_input, auto |-> sb.uid_input]}
    ELSE {[user_id |-> IF sb.uid_input # "" THEN sb.uid_input ELSE DefaultUid(sb.role),
           auto |-> ss.auto_student_id]}

\* line 685: the number of GLOBAL attempts that unlocks the learn fields
GlobalDoneAt == 8

\* the mutation: the GLOBAL attempts of every student are counted
global_done_of_all(tbl, user_id) ==
    Len(SelectSeq(get_attempts(tbl, None, None), LAMBDA r : r.field_id = GLOBAL))
        >= GlobalDoneAt

global_done(tbl, user_id) ==
    Len(SelectSeq(get_attempts(tbl, user_id, None), LAMBDA r : r.field_id = GLOBAL))
        >= GlobalDoneAt

\* what every run does to the sidebar, the users table and the session
ScriptRun(s, sb, lg, ss, log) ==
    /\ run_log[s].runs < MaxRuns
    /\ run_log' = [run_log EXCEPT ![s] =
                      [log EXCEPT !.runs = run_log[s].runs + 1,
                                  !.wrote = @ \cup {<<"users", lg.user_id>>}]]
    /\ sidebar' = [sidebar EXCEPT ![s] = sb]
    /\ users' = upsert_user(users, lg.user_id, sb.role, "", CLASS_CODE)
    /\ session_state' = [session_state EXCEPT ![s] = [ss EXCEPT !.auto_student_id = lg.auto]]
    /\ UNCHANGED selection

\* the mutation: a start leaves the index where it is
StartFlowKeepIndex(ss, chosen, mode, field, dom) ==
    [ss EXCEPT !.flow_items = chosen, !.flow_mode = mode,
               !.flow_field = field, !.flow_dom = dom]

StartFlow(ss, chosen, mode, field, dom) ==
    [ss EXCEPT !.flow_items = chosen, !.flow_i = 0, !.flow_mode = mode,
               !.flow_field = field, !.flow_dom = dom]

\* the page is loaded, no widget was operated
Run(s) ==
    \E lg \in Logins(sidebar[s], session_state[s]) :
        /\ ScriptRun(s, sidebar[s], lg, session_state[s], run_log[s])
        /\ UNCHANGED <<attempts, topic_texts, materials>>

\* "Rolle" is changed; the id field shows the default id of the role
ChangeRole(s, role) ==
    LET sb == [role |-> role, uid_input |-> DefaultUid(role)]
    IN  /\ role # sidebar[s].role
        /\ \E lg \in Logins(sb, session_state[s]) :
              ScriptRun(s, sb, lg, session_state[s], run_log[s])
        /\ UNCHANGED <<attempts, topic_texts, materials>>

\* an id is typed into "Kuerzel/ID"
ChangeUid(s, uid) ==
    LET sb == [sidebar[s] EXCEPT !.uid_input = uid]
    IN  /\ uid # sidebar[s].uid_input
        /\ \E lg \in Logins(sb, session_state[s]) :
              ScriptRun(s, sb, lg, session_state[s], run_log[s])
        /\ UNCHANGED <<attempts, topic_texts, materials>>

\* f"global_{dom}"
GlobalMode(dom) ==
    CASE dom = "SPR" -> "global_SPR" [] dom = "KOG" -> "global_KOG"
      [] dom = "META" -> "global_META" [] OTHER -> "global_MOT"

\* lines 704-715: "Start" of a domain of the basis diagnostic
StartGlobal(s, dom) ==
    \E lg \in Logins(sidebar[s], session_state[s]) :
        /\ ~global_done(attempts, lg.user_id)
        /\ \E chosen \in pick_global(dom, IF dom \in {"SPR", "KOG"} THEN 3 ELSE 2) :
              ScriptRun(s, sidebar[s], lg,
                        StartFlow(session_state[s], chosen, GlobalMode(dom), GLOBAL, dom),
                        [run_log[s] EXCEPT !.op = "start_global", !.items = chosen,
                                           !.logged = <<>>, !.warned = FALSE])
        /\ UNCHANGED <<attempts, topic_texts, materials>>

\* the mutation: the flow ends one item early
FlowAfterAnswerOneEarly(ss) ==
    IF ss.flow_i + 2 < Len(ss.flow_items)
    THEN [ss EXCEPT !.flow_i = ss.flow_i + 1]
    ELSE StartFlow(ss, <<>>, None, None, None)

\* the mutation: the flow stays at its last item
FlowAfterAnswerNeverEnds(ss) ==
    IF ss.flow_i + 1 < Len(ss.flow_items)
    THEN [ss EXCEPT !.flow_i = ss.flow_i + 1]
    ELSE ss

\* lines 740-750: the next item, or the flow is over
FlowAfterAnswer(ss) ==
    IF ss.flow_i + 1 < Len(ss.flow_items)
    THEN [ss EXCEPT !.flow_i = ss.flow_i + 1]
    ELSE StartFlow(ss, <<>>, None, None, None)

\* lines 717-750: "Weiter" of the form of the current item
SubmitAnswer(s, response) ==
    LET ss == session_state[s]
        i  == ss.flow_i
        it == ss.flow_items[i + 1]
        res == render_item(it, response)
    IN  /\ ss.flow_items # <<>>
        /\ \E lg \in Logins(sidebar[s], ss) :
              IF ~res.accepted
              THEN /\ ScriptRun(s, sidebar[s], lg, ss, [run_log[s] EXCEPT !.op = "rejected", !.warned = TRUE])
                   /\ UNCHANGED attempts
              ELSE /\ Len(attempts) < Len(StoredAttempts) + MaxRows
                   /\ attempts' = log_attempt(attempts, lg.user_id, CLASS_CODE, it, res.correct)
                   /\ ScriptRun(s, sidebar[s], lg, FlowAfterAnswer(ss),
                         [run_log[s] EXCEPT
                             !.op = IF FlowAfterAnswer(ss).flow_items = <<>>
                                    THEN "completed" ELSE "accepted",
                             !.logged = Append(@, it.id)])
        /\ UNCHANGED <<topic_texts, materials>>

\* the learn fields chosen in "Lernfeld waehlen": one with three items, one
\* with one item, one without items
FieldChoices == {"LF1", "LF2", "LF3"}

\* lines 787-794: "Fachdiagnostik starten"
StartFachdiag(s, field_id) ==
    \E lg \in Logins(sidebar[s], session_state[s]) :
        /\ global_done(attempts, lg.user_id)
        /\ \E chosen \in pick_lf(lf_items, field_id, 6) :
              ScriptRun(s, sidebar[s], lg,
                        StartFlow(session_state[s], chosen, "lf_diag", field_id, FACH),
                        [run_log[s] EXCEPT !.op = "start_lf", !.items = chosen,
                                           !.logged = <<>>, !.warned = FALSE])
        /\ UNCHANGED <<attempts, topic_texts, materials>>

\* the topics "Thema (Uebung)" offers for the field
TopicsOf(field_id) ==
    {it.topic : it \in {x \in Range(lf_items) : IsFach(x, field_id)}} \ {""}

\* lines 796-811: "Ueben (adaptiv) starten"; chosen_topic is None for "Auto"
StartPractice(s, field_id, chosen_topic, easy_mode) ==
    \E lg \in Logins(sidebar[s], session_state[s]) :
        LET at  == get_attempts(attempts, lg.user_id, None)
            p   == compute_profile(at)
            lvl == infer_language_level(p, easy_mode)
        IN  /\ global_done(attempts, lg.user_id)
            /\ chosen_topic \in TopicsOf(field_id) \cup {None}
            /\ \E topic \in IF chosen_topic # None THEN {chosen_topic}
                            ELSE pick_topic_for_practice(lf_items, at, field_id) :
               \E chosen \in pick_practice_sequence(lf_items, p, at, field_id, topic, 10) :
                  ScriptRun(s, sidebar[s], lg,
                     [StartFlow(session_state[s], chosen, "practice", field_id, FACH)
                         EXCEPT !.practice_topic = topic, !.practice_lang_level = lvl],
                     [run_log[s] EXCEPT !.op = "start_practice", !.items = chosen,
                                        !.logged = <<>>, !.warned = FALSE])
            /\ UNCHANGED <<attempts, topic_texts, materials>>

\* list_topics: the (field, topic) pairs of the item bank
ListTopics == {<<it.field, it.topic>> : it \in {x \in Range(lf_items) : x.topic # ""}}

\* the language levels and the text "Infotext speichern" is pressed with
LevelChoices == {2}
InfoTexts == {"Info"}

\* lines 977-982: "Infotext speichern"
SaveTopicText(s, lf_sel, topic_sel, lvl_sel, new_text) ==
    /\ <<lf_sel, topic_sel>> \in ListTopics
    /\ \E lg \in Logins(sidebar[s], session_state[s]) :
          ScriptRun(s, sidebar[s], lg, session_state[s],
                    [run_log[s] EXCEPT !.wrote =
                        @ \cup {<<"topic_texts", <<lf_sel, topic_sel, lvl_sel>>>>}])
    /\ topic_texts' = upsert_topic_text(topic_texts, lf_sel, topic_sel, lvl_sel, new_text)
    /\ UNCHANGED <<attempts, materials>>

\* the titles, fields and files "Material speichern" is pressed with
Titles == {"", "Plan"}
Files == {None, "plan.pdf"}
MaterialFields == {"LF1"}

\* lines 998-1007: "Material speichern"
SaveMaterial(s, m_title, m_field, file_obj) ==
    /\ \E lg \in Logins(sidebar[s], session_state[s]) :
          /\ ScriptRun(s, sidebar[s], lg, session_state[s], run_log[s])
          /\ IF m_title = "" \/ file_obj = None
             THEN UNCHANGED materials
             ELSE /\ Len(materials) < MaxMaterials
                  /\ materials' = save_material(materials, lg.user_id, CLASS_CODE, m_title,
                                     IF m_field = "(alle)" THEN None ELSE m_field, file_obj)
    /\ UNCHANGED <<attempts, topic_texts>>

\* the responses the form on the page can be submitted with
ResponsesNow(s) ==
    LET ss == session_state[s]
    IN  IF ss.flow_items = <<>> THEN {} ELSE Responses(ss.flow_items[ss.flow_i + 1])

\* the domains of the basis diagnostic whose "Start" is pressed
DomainChoices == {"KOG", "META"}

Next ==
    \E s \in Active :
        \/ Run(s)
        \/ \E role \in Roles : ChangeRole(s, role)
        \/ \E uid \in UidInputs : ChangeUid(s, uid)
        \/ \E dom \in DomainChoices : StartGlobal(s, dom)
        \/ \E response \in ResponsesNow(s) : SubmitAnswer(s, response)
        \/ \E field_id \in FieldChoices : StartFachdiag(s, field_id)
        \/ \E field_id \in FieldChoices, chosen_topic \in {None, "T1"}, easy_mode \in BOOLEAN :
              StartPractice(s, field_id, chosen_topic, easy_mode)
        \/ \E lf_sel \in FieldChoices, topic_sel \in {"T1"}, lvl_sel \in LevelChoices,
              new_text \in InfoTexts : SaveTopicText(s, lf_sel, topic_sel, lvl_sel, new_text)
        \/ \E m_title \in Titles, m_field \in MaterialFields, file_obj \in Files :
              SaveMaterial(s, m_title, m_field, file_obj)

Spec == Init /\ [][Next]_vars

(***************************************************************************)
(* AnswerSpec: the form of a short (free-text) or an ordering item is      *)
(* submitted.  The session is in a learn-field diagnostic of one item; the *)
(* item is any of AnswerItems, the answer any the form can hold.           *)
(***************************************************************************)
\* keyword lists of a short item: none, four (max(1, 4//4) = 1) and eight
\* (max(1, 8//4) = 2) keywords
KeywordLists ==
    {<<>>,
     <<<<"i", "c", "h">>,
          <<"h", "e", "l", "f", "e">>,
          <<"w", "a", "s", "c", "h", "e", "n">>,
          <<"j", "e", "t", "z", "t">>>>,
     <<<<"i", "c", "h">>,
          <<"h", "e", "l", "f", "e">>,
          <<"w", "a", "s", "c", "h", "e", "n">>,
          <<"j", "e", "t", "z", "t">>,
          <<"b", "i", "t", "t", "e">>,
          <<"s", "a", "g", "e", "n">>,
          <<"s", "t", "u", "r", "z">>,
          <<"w", "e", "i", "l">>>>}

\* the texts typed into the text area
AnswerTexts ==
    {<<>>,
     <<"I", "c", "h", " ", "h", "e", "l", "f", "e", " ", "b", "e", "i", "m", " ", "W", "a", "s", "c", "h", "e", "n">>,
     <<"J", "e", "t", "z", "t">>,
     <<"N", "i", "c", "h", "t">>,
     <<"G", "u", "t", "e", "n", " ", "M", "o", "r", "g", "e", "n">>,
     <<" ", " ", "H", "a", "l", "l", "o", " ", "W", "e", "l", "t", " ", " ">>}

\* the steps of an ordering item
StepNames == <<"A", "B", "C", "D", "E", "F">>

\* the orders of n steps: the permutations of 0..n-1
Orders(n) ==
    {f \in [1..n -> 0..(n - 1)] : \A i, j \in 1..n : i # j => f[i] # f[j]}

AnswerItems ==
    {[Item("LF1_0001", "LF1", FACH, 1, "short", "T1") EXCEPT !.keywords = kws] :
        kws \in KeywordLists}
    \cup UNION {{[Item("LF1_0001", "LF1", FACH, 1, "order", "T1") EXCEPT
                     !.steps = SubSeq(StepNames, 1, n), !.correct_order = co] :
                    co \in Orders(n)} : n \in 2..MaxSteps}

\* the data base holds the eighth GLOBAL row of u1, u1 is logged in and has
\* pressed "Fachdiagnostik starten" for a field whose only item is the item
AnswerInit ==
    /\ \E item \in AnswerItems :
          /\ session_state = [s \in Sessions |->
                IF s \in Active
                THEN StartFlow(FreshSessionState, <<item>>, "lf_diag", item.field, FACH)
                ELSE FreshSessionState]
          /\ run_log = [s \in Sessions |->
                IF s \in Active
                THEN [FreshRunLog EXCEPT !.op = "start_lf", !.items = <<item>>]
                ELSE FreshRunLog]
          /\ selection = NoSelection(<<item>>)
    /\ attempts = log_attempt(StoredAttempts, "u1", CLASS_CODE, GLOBAL_ITEMS[8], TRUE)
    /\ users = [u \in {"u1"} |->
                   [role |-> "student", display_name |-> "", class_code |-> CLASS_CODE]]
    /\ topic_texts = << >>
    /\ materials = << >>
    /\ sidebar = [s \in Sessions |->
          IF s \in Active THEN [role |-> "student", uid_input |-> "u1"] ELSE FreshSidebar]

\* the answers the form of the item can be submitted with
AnswerResponses(item) ==
    IF item.type = "short" THEN {[text |-> txt] : txt \in AnswerTexts}
    ELSE Responses(item)

AnswerNext ==
    \E s \in Active :
        /\ session_state[s].flow_items # <<>>
        /\ \E response \in AnswerResponses(
                 session_state[s].flow_items[session_state[s].flow_i + 1]) :
              SubmitAnswer(s, response)

AnswerSpec == AnswerInit /\ [][AnswerNext]_vars

(***************************************************************************)
(* SharedSpec: two browser sessions use the data base in any interleaving  *)
(***************************************************************************)
\* the texts two teachers save for a topic
SharedTexts == {"Info", "Neu"}

\* the two sessions have script runs left
SharedBudget == run_log["s1"].runs + run_log["s2"].runs < MaxShared

SharedNext ==
    \E s \in Sessions :
        \/ SharedBudget /\ Run(s)
        \/ SharedBudget /\ \E role \in Roles : ChangeRole(s, role)
        \/ SharedBudget /\ \E uid \in UidInputs : ChangeUid(s, uid)
        \/ SharedBudget /\ \E dom \in DomainChoices : StartGlobal(s, dom)
        \/ SharedBudget /\ \E response \in ResponsesNow(s) : SubmitAnswer(s, response)
        \/ SharedBudget /\ \E field_id \in FieldChoices : StartFachdiag(s, field_id)
        \/ SharedBudget /\ \E field_id \in FieldChoices, chosen_topic \in {None, "T1"},
                               easy_mode \in BOOLEAN :
                               StartPractice(s, field_id, chosen_topic, easy_mode)
        \/ SharedBudget /\ \E lf_sel \in FieldChoices, topic_sel \in {"T1"},
                               lvl_sel \in LevelChoices, new_text \in SharedTexts :
                               SaveTopicText(s, lf_sel, topic_sel, lvl_sel, new_text)
        \/ SharedBudget /\ \E m_title \in Titles, m_field \in MaterialFields,
                               file_obj \in Files :
                               SaveMaterial(s, m_title, m_field, file_obj)

SharedSpec == Init /\ [][SharedNext]_vars

(***************************************************************************)
(* LiveSpec: one session in which a flow is started only when no flow is   *)
(* active, and in which the student keeps submitting valid answers (the    *)
(* fairness condition).  The data base at start is empty, for the flows of *)
(* the basis diagnostic, or holds eight GLOBAL attempts of the student who *)
(* is logged in, for the flows of a learn field.  A flow is started, and   *)
(* an answer turned away, only while the runs and the rows of the model    *)
(* leave room for the answers that the flow still needs.                   *)
(***************************************************************************)
StoredDone == log_attempt(StoredAttempts, "u1", CLASS_CODE, GLOBAL_ITEMS[8], TRUE)

LiveInit ==
    /\ \E stored \in {<< >>, StoredDone} :
          /\ attempts = stored
          /\ users = [u \in {stored[i].user_id : i \in 1..Len(stored)} |->
                         [role |-> "student", display_name |-> "", class_code |-> CLASS_CODE]]
          /\ sidebar = [s \in Sessions |->
                IF s \in Active /\ stored # << >>
                THEN [role |-> "student", uid_input |-> "u1"] ELSE FreshSidebar]
    /\ selection = NoSelection(lf_items)
    /\ topic_texts = << >>
    /\ materials = << >>
    /\ session_state = [s \in Sessions |-> FreshSessionState]
    /\ run_log = [s \in Sessions |-> FreshRunLog]

\* the answers to the current item that render_item returns a result for
ValidResponses(s) ==
    {response \in ResponsesNow(s) :
        render_item(session_state[s].flow_items[session_state[s].flow_i + 1],
                    response).accepted}

\* the flow that was started can be answered to its end
FlowFits(s) ==
    /\ run_log'[s].runs + Len(session_state'[s].flow_items) <= MaxRuns
    /\ Len(attempts) + Len(session_state'[s].flow_items) <= Len(StoredAttempts) + MaxRows

\* after one more run the rest of the flow can still be answered
RoomToReject(s) ==
    run_log[s].runs + 1 + Len(session_state[s].flow_items) - session_state[s].flow_i
        <= MaxRuns

NoFlow(s) == session_state[s].flow_items = <<>>

ValidAnswer ==
    \E s \in Active : \E response \in ValidResponses(s) : SubmitAnswer(s, response)

LiveNext ==
    \/ \E s \in Active : \E dom \in Range(GLOBAL_DOMAINS) :
          NoFlow(s) /\ StartGlobal(s, dom) /\ FlowFits(s)
    \/ \E s \in Active : \E field_id \in FieldChoices :
          NoFlow(s) /\ StartFachdiag(s, field_id) /\ FlowFits(s)
    \/ \E s \in Active : \E field_id \in FieldChoices, chosen_topic \in {None, "T1"},
          easy_mode \in BOOLEAN :
          NoFlow(s) /\ StartPractice(s, field_id, chosen_topic, easy_mode) /\ FlowFits(s)
    \/ ValidAnswer
    \/ \E s \in Active : \E response \in ResponsesNow(s) \ ValidResponses(s) :
          RoomToReject(s) /\ SubmitAnswer(s, response)

LiveSpec == LiveInit /\ [][LiveNext]_vars /\ WF_vars(ValidAnswer)

(***************************************************************************)
(* ProfileSpec: log_attempt called with arbitrary items and results, so    *)
(* that every attempt history up to MaxHist rows is reached                *)
(***************************************************************************)
\* items of one key in every difficulty of the weight table, one item of another
\* key with a difficulty the table does not hold
ProfileItems ==
    {Item("p1", "LF1", FACH, 1, "mcq", "T1"),
     Item("p2", "LF1", FACH, 2, "mcq", "T1"),
     Item("p3", "LF1", FACH, 3, "mcq", "T1"),
     Item("p4", "LF2", FACH, 4, "mcq", "T1")}

ProfileUser == "u1"

Record(item, correct) ==
    /\ Len(attempts) < MaxHist
    /\ attempts' = log_attempt(attempts, ProfileUser, CLASS_CODE, item, correct)
    /\ UNCHANGED <<users, topic_texts, materials, sidebar, session_state, run_log,
                   selection>>

ProfileInit == InitWith(<< >>)

\* every item right or wrong; the item of the other key only right
ProfileInputs ==
    {<<item, correct>> \in ProfileItems \X BOOLEAN : item.field = "LF1" \/ correct}

ProfileNext == \E in \in ProfileInputs : Record(in[1], in[2])

ProfileSpec == ProfileInit /\ [][ProfileNext]_vars

\* the profile the student view computes for ProfileUser: lines 682-683
ProfileNow == compute_profile(get_attempts(attempts, ProfileUser, None))

(***************************************************************************)
(* SelectSpec: a selection function is called once.  The item bank is any  *)
(* sequence of up to MaxBank items with unique ids; the seen-set, the      *)
(* level of the profile and the count are arbitrary.                       *)
(***************************************************************************)
\* the field the selection is called for
SelectField == "LF1"

\* what an item of a bank can be: a quiz of the field in every difficulty, a
\* matching item and a case, a case of another topic, an item of another
\* field and an item of the field in another domain
Shapes ==
    {[field |-> SelectField, domain |-> FACH, difficulty |-> d, type |-> "mcq", topic |-> "T1"] :
        d \in 1..3}
    \cup {[field |-> SelectField, domain |-> FACH, difficulty |-> 2, type |-> "match", topic |-> "T1"],
          [field |-> SelectField, domain |-> FACH, difficulty |-> 3, type |-> "case", topic |-> "T1"],
          [field |-> SelectField, domain |-> FACH, difficulty |-> 2, type |-> "case", topic |-> "T2"],
          [field |-> "LF2", domain |-> FACH, difficulty |-> 1, type |-> "mcq", topic |-> "T1"],
          [field |-> SelectField, domain |-> "SPR", difficulty |-> 1, type |-> "mcq", topic |-> "T1"]}

BankIds == <<"i1", "i2", "i3", "i4", "i5">>

\* the item banks: the item at position i has the id BankIds[i]
Banks ==
    UNION {{[i \in 1..n |-> Item(BankIds[i], sh[i].field, sh[i].domain, sh[i].difficulty,
                                 sh[i].type, sh[i].topic)] :
               sh \in [1..n -> Shapes]} : n \in 0..MaxBank}

\* the profiles: no record of the field, or a record with a level
Profiles ==
    {<< >>} \cup {(<<SelectField, FACH>> :> [accuracy |-> 50, level |-> l, n |-> 1]) : l \in 2..3}

\* an attempts table with one row for every item of the bank whose id is seen
RECURSIVE AttemptsOn(_, _, _)
AttemptsOn(items, seen, i) ==
    IF i = 0 THEN <<>>
    ELSE IF items[i].id \in seen
    THEN log_attempt(AttemptsOn(items, seen, i - 1), ProfileUser, CLASS_CODE, items[i], TRUE)
    ELSE AttemptsOn(items, seen, i - 1)

SelectInit ==
    /\ \E b \in Banks : selection = NoSelection(b)
    /\ attempts = << >>
    /\ users = << >>
    /\ topic_texts = << >>
    /\ materials = << >>
    /\ sidebar = [s \in Sessions |-> FreshSidebar]
    /\ session_state = [s \in Sessions |-> FreshSessionState]
    /\ run_log = [s \in Sessions |-> FreshRunLog]

Called(fn, profile, field_id, topic, seen, k, jitter0, result) ==
    /\ selection' = [selection EXCEPT !.fn = fn, !.profile = profile,
                         !.field_id = field_id, !.topic = topic, !.seen = seen,
                         !.k = k, !.jitter0 = jitter0, !.result = result]
    /\ UNCHANGED <<attempts, users, topic_texts, materials, sidebar, session_state, run_log>>

\* the ids of the items of a bank
IdsOf(items) == {items[i].id : i \in 1..Len(items)}

\* the jitter of a call in which random.random() returns 0 every time
ZeroJitter == [i \in 1..MaxBank + 1 |-> 0]

CallAdaptive(profile, seen, k) ==
    /\ selection.fn = "none"
    /\ seen \subseteq IdsOf(selection.items)
    /\ \E result \in pick_adaptive(selection.items, profile, SelectField, seen, k) :
          Called("pick_adaptive", profile, SelectField, None, seen, k,
                 result = pick_adaptive_with(selection.items, profile, SelectField, seen, k,
                                             ZeroJitter),
                 result)

CallPractice(profile, seen, topic, k) ==
    /\ selection.fn = "none"
    /\ seen \subseteq IdsOf(selection.items)
    /\ \E result \in pick_practice_sequence(selection.items, profile,
                         AttemptsOn(selection.items, seen, Len(selection.items)),
                         SelectField, topic, k) :
          Called("pick_practice_sequence", profile, SelectField, topic, seen, k, FALSE, result)

CallLf(n) ==
    /\ selection.fn = "none"
    /\ \E result \in pick_lf(selection.items, SelectField, n) :
          Called("pick_lf", << >>, SelectField, None, {}, n, FALSE, result)

\* pick_global(dom, n): the record holds dom as the topic (the topic of a
\* GLOBAL item is its domain)
CallGlobal(dom, n) ==
    /\ selection.fn = "none"
    /\ \E result \in pick_global(dom, n) :
          Called("pick_global", << >>, GLOBAL, dom, {}, n, FALSE, result)

SelectNext ==
    \/ \E profile \in Profiles, seen \in SUBSET Range(BankIds), k \in 0..MaxBank :
          CallAdaptive(profile, seen, k)
    \/ \E profile \in Profiles, seen \in SUBSET Range(BankIds), k \in 0..MaxBank,
          topic \in {"T1", "T2"} : CallPractice(profile, seen, topic, k)
    \/ \E n \in 0..MaxBank : CallLf(n)
    \/ \E dom \in Range(GLOBAL_DOMAINS), n \in 0..(MaxBank + 1) : CallGlobal(dom, n)

SelectSpec == SelectInit /\ [][SelectNext]_vars

(***************************************************************************)
(* MixSpec: pick_practice_sequence is called once with a bank of one topic *)
(* whose items are all of the same difficulty and unseen, so that every    *)
(* order of the pool occurs.  The banks are all the ways to give up to     *)
(* MaxMix items one of five quiz types, up to the names of the types, with *)
(* or without a case.                                                      *)
(***************************************************************************)
MixTypes == <<"mcq", "cloze", "match", "order", "short">>

MixIds == <<"m1", "m2", "m3", "m4", "m5", "m6", "m7", "m8", "m9">>

\* how often each type occurs: the first type most often
MixCounts ==
    {c \in [1..Len(MixTypes) -> 0..MaxMix] :
        /\ \A t \in 1..(Len(MixTypes) - 1) : c[t] >= c[t + 1]
        /\ c[1] + c[2] + c[3] + c[4] + c[5] \in 1..MaxMix}

\* the type of the item at position i of the bank with the counts c
RECURSIVE MixTypeAt(_, _, _)
MixTypeAt(c, t, i) ==
    IF i <= c[t] THEN MixTypes[t] ELSE MixTypeAt(c, t + 1, i - c[t])

MixBank(c, withCase) ==
    LET n == c[1] + c[2] + c[3] + c[4] + c[5]
        quiz == [i \in 1..n |-> Item(MixIds[i], SelectField, FACH, 1, MixTypeAt(c, 1, i), "T1")]
    IN  IF withCase
        THEN Append(quiz, Item(MixIds[n + 1], SelectField, FACH, 1, "case", "T1"))
        ELSE quiz

MixInit ==
    /\ \E c \in MixCounts, withCase \in BOOLEAN : selection = NoSelection(MixBank(c, withCase))
    /\ attempts = << >>
    /\ users = << >>
    /\ topic_texts = << >>
    /\ materials = << >>
    /\ sidebar = [s \in Sessions |-> FreshSidebar]
    /\ session_state = [s \in Sessions |-> FreshSessionState]
    /\ run_log = [s \in Sessions |-> FreshRunLog]

MixNext == \E k \in 0..(MaxMix + 1) : CallPractice(<< >>, {}, "T1", k)

MixSpec == MixInit /\ [][MixNext]_vars

(***************************************************************************)
(* What the claims about the estimate are stated with: the sums of the     *)
(* weights in the reals (in tenths), computed from the rows alone          *)
(***************************************************************************)
Tenths(d) == IF d = 2 THEN 13 ELSE IF d = 3 THEN 17 ELSE 10

RowsOf(tbl, user_id, key) ==
    {i \in 1..Len(tbl) : tbl[i].user_id = user_id /\ RowKey(tbl[i]) = key}

RECURSIVE SumTenths(_, _, _)
SumTenths(tbl, is, onlyCorrect) ==
    IF is = {} THEN 0
    ELSE LET i == CHOOSE x \in is : TRUE
         IN  (IF onlyCorrect /\ tbl[i].correct # 1 THEN 0 ELSE Tenths(tbl[i].difficulty))
             + SumTenths(tbl, is \ {i}, onlyCorrect)

ExactW(tbl, user_id, key) == SumTenths(tbl, RowsOf(tbl, user_id, key), FALSE)
ExactC(tbl, user_id, key) == SumTenths(tbl, RowsOf(tbl, user_id, key), TRUE)

ProfileOf(tbl, user_id) == compute_profile(get_attempts(tbl, user_id, None))

\* the table with rows i and i+1 exchanged
SwapRows(tbl, i) == [tbl EXCEPT ![i] = tbl[i + 1], ![i + 1] = tbl[i]]

KeyLF1 == <<"LF1", FACH>>
KeyLF2 == <<"LF2", FACH>>

StartOps == {"start_global", "start_lf", "start_practice"}

\* the item on the page of session s (a flow is in progress)
CurrentItem(s) == session_state[s].flow_items[session_state[s].flow_i + 1]

\* in this step session s had an answer accepted
AnswerAccepted(s) ==
    /\ session_state[s].flow_items # <<>>
    /\ run_log'[s].logged = Append(run_log[s].logged, CurrentItem(s).id)

(***************************************************************************)
(* C1: a flow is not started (no items, index 0) or in progress at an      *)
(* index i below its number N of items.  The flow changes only in two      *)
(* ways: a start button begins a new flow at index 0, or an answer is      *)
(* accepted; an accepted answer at i + 1 < N moves the index to i + 1 and  *)
(* leaves the items alone, an accepted answer at i + 1 = N ends the flow.  *)
(***************************************************************************)
C1_FlowStateMachine ==
    [][\A s \in Sessions :
          LET ss == session_state[s]
              tt == session_state'[s]
              N  == Len(ss.flow_items)
              started   == /\ run_log'[s].op \in StartOps
                           /\ run_log'[s].logged = <<>>
                           /\ tt.flow_items = run_log'[s].items
                           /\ tt.flow_i = 0
              advanced  == /\ ss.flow_i + 1 < N
                           /\ tt.flow_items = ss.flow_items
                           /\ tt.flow_i = ss.flow_i + 1
              completed == /\ ss.flow_i + 1 = N
                           /\ tt.flow_items = <<>>
                           /\ tt.flow_i = 0
          IN  /\ IF N = 0 THEN ss.flow_i = 0 ELSE ss.flow_i \in 0..(N - 1)
              /\ (tt.flow_items # ss.flow_items \/ tt.flow_i # ss.flow_i)
                    => started \/ AnswerAccepted(s)
              /\ AnswerAccepted(s)
                    => Len(attempts') = Len(attempts) + 1 /\ (advanced \/ completed)]_vars

\* a flow of three items is at its last item
C1_Witness ==
    \E s \in Sessions :
        /\ Len(session_state[s].flow_items) = 3
        /\ session_state[s].flow_i = 2
        /\ run_log[s].op = "accepted"

(***************************************************************************)
(* C2: an accepted answer appends exactly one row, with the id of the      *)
(* user of the run and the id, field, domain and difficulty of the item    *)
(* on the page; no other step appends a row; and when a flow over N items  *)
(* has ended, the last N rows are the rows of its items in their order.    *)
(***************************************************************************)
RowIsFor(row, item) ==
    /\ row.item_id = item.id
    /\ row.field_id = item.field
    /\ row.domain_id = item.domain
    /\ row.difficulty = item.difficulty

C2_Completed(s) ==
    LET its == run_log[s].items
        N   == Len(its)
    IN  /\ run_log[s].logged = [i \in 1..N |-> its[i].id]
        /\ Len(attempts) >= Len(StoredAttempts) + N
        /\ \A i \in 1..N : RowIsFor(attempts[Len(attempts) - N + i], its[i])

C2_OneRowPerAcceptedAnswer ==
    /\ [](\A s \in Sessions : run_log[s].op = "completed" => C2_Completed(s))
    /\ [][/\ \A s \in Sessions :
                AnswerAccepted(s) =>
                    /\ Len(attempts') = Len(attempts) + 1
                    /\ SubSeq(attempts', 1, Len(attempts)) = attempts
                    /\ RowIsFor(attempts'[Len(attempts')], CurrentItem(s))
                    /\ \E lg \in Logins(sidebar[s], session_state[s]) :
                          attempts'[Len(attempts')].user_id = lg.user_id
          /\ attempts' # attempts => \E s \in Sessions : AnswerAccepted(s)]_vars

\* a flow of two items has ended and left two rows
C2_Witness ==
    \E s \in Sessions :
        /\ run_log[s].op = "completed"
        /\ Len(run_log[s].items) = 2
        /\ Len(attempts) = Len(StoredAttempts) + 2

(***************************************************************************)
(* C3: in every step the table attempts is unchanged or is its previous    *)
(* content with one row appended; no step changes or removes a row.        *)
(***************************************************************************)
C3_AttemptsAppendOnly ==
    [][/\ Len(attempts') \in {Len(attempts), Len(attempts) + 1}
       /\ SubSeq(attempts', 1, Len(attempts)) = attempts]_vars

\* an answer was logged and a topic text and a material were saved
C3_Witness ==
    /\ Len(attempts) > Len(StoredAttempts)
    /\ SubSeq(attempts, 1, Len(StoredAttempts)) = StoredAttempts
    /\ materials # <<>>
    /\ DOMAIN topic_texts # {}

(***************************************************************************)
(* C4: when a form is submitted with no option chosen, with an ordering    *)
(* that has an unfilled position or a step twice, or with a matching that  *)
(* has an unassigned left side, no row is logged and the flow keeps its    *)
(* items and its index; the same item stays on the page and a valid        *)
(* answer to it is accepted.                                               *)
(***************************************************************************)
Unfilled(item, response) ==
    IF item.type \in ChoiceTypes THEN response.choice = None
    ELSE IF item.type = "order"
    THEN \E i \in DOMAIN response.order_steps : response.order_steps[i] = None
    ELSE IF item.type = "match"
    THEN \E left \in DOMAIN response.match : response.match[left] = None
    ELSE FALSE

StepTwice(item, response) ==
    /\ item.type = "order"
    /\ \E i, j \in DOMAIN response.order_steps :
          i # j /\ response.order_steps[i] = response.order_steps[j]

Malformed(item, response) == Unfilled(item, response) \/ StepTwice(item, response)

\* a response with every select box on its placeholder, and an ordering with
\* the first step at every position
C4_Samples(item) ==
    IF item.type \in ChoiceTypes THEN {[choice |-> None]}
    ELSE IF item.type = "order"
    THEN {[order_steps |-> [i \in 1..Len(item.steps) |-> None]],
          [order_steps |-> [i \in 1..Len(item.steps) |-> item.steps[1]]]}
    ELSE IF item.type = "match"
    THEN {[match |-> [left \in Lefts(item) |-> None]]}
    ELSE {}

\* render_item turns every malformed response away, and after a warning the
\* item is still on the page and has a response that is accepted
C4_TurnedAway ==
    \A s \in Sessions :
        /\ \A response \in ResponsesNow(s) :
              Malformed(CurrentItem(s), response)
                  => render_item(CurrentItem(s), response) = Rejected
        /\ run_log[s].op = "rejected" =>
              /\ session_state[s].flow_items # <<>>
              /\ \E response \in ResponsesNow(s) :
                    render_item(CurrentItem(s), response).accepted

\* the responses turned away have all the same effect: C4_Samples stand for them
C4_MalformedAnswerRejected ==
    /\ []C4_TurnedAway
    /\ [][\A s \in Sessions :
             session_state[s].flow_items # <<>> =>
                 \A response \in C4_Samples(CurrentItem(s)) :
                     (Malformed(CurrentItem(s), response) /\ SubmitAnswer(s, response)) =>
                         /\ attempts' = attempts
                         /\ session_state'[s].flow_items = session_state[s].flow_items
                         /\ session_state'[s].flow_i = session_state[s].flow_i
                         /\ run_log'[s].op = "rejected"]_vars

\* a flow in which an answer was turned away has ended with all its rows
C4_Witness ==
    \E s \in Sessions :
        /\ run_log[s].op = "completed"
        /\ run_log[s].warned
        /\ Len(run_log[s].logged) = Len(run_log[s].items)

(***************************************************************************)
(* C5: in every reachable state the level of every (student, field,        *)
(* domain) key is 1, 2 or 3 and is a function of that student's attempt    *)
(* rows for the key in any order: exchanging two neighbouring rows of the  *)
(* table changes no level, and the level is the one the rows of the key    *)
(* alone give.                                                             *)
(***************************************************************************)
C5_LevelPureFunctionOfRows ==
    \A key \in DOMAIN ProfileNow :
        /\ ProfileNow[key].level \in {1, 2, 3}
        /\ ProfileNow[key].level =
              compute_profile(SelectSeq(get_attempts(attempts, ProfileUser, None),
                                        LAMBDA r : RowKey(r) = key))[key].level
        /\ \A i \in 1..(Len(attempts) - 1) :
              ProfileOf(SwapRows(attempts, i), ProfileUser)[key].level = ProfileNow[key].level

(***************************************************************************)
(* C6: in every record of the profile the level is fixed by the record's   *)
(* accuracy at 0.45 and 0.75: level 1 iff accuracy < 0.45, level 2 iff     *)
(* 0.45 <= accuracy < 0.75, level 3 iff accuracy >= 0.75.                  *)
(***************************************************************************)
C6_LevelFixedByRecordAccuracy ==
    \A key \in DOMAIN ProfileNow :
        LET r == ProfileNow[key]
        IN  /\ (r.level = 1) <=> (r.accuracy < 45)
            /\ (r.level = 2) <=> (45 <= r.accuracy /\ r.accuracy < 75)
            /\ (r.level = 3) <=> (r.accuracy >= 75)

(***************************************************************************)
(* C7: for every attempt history every accuracy the profile holds lies in  *)
(* [0,1], the profile has a record for exactly the keys that have rows,    *)
(* and the n of a key is the number of the rows with that key.             *)
(***************************************************************************)
C7_AccuracyInUnitIntervalAndCount ==
    /\ DOMAIN ProfileNow = {RowKey(attempts[i]) : i \in 1..Len(attempts)}
    /\ \A key \in DOMAIN ProfileNow :
          /\ ProfileNow[key].accuracy \in 0..100
          /\ ProfileNow[key].n = Cardinality(RowsOf(attempts, ProfileUser, key))

\* two keys recorded, one with a difficulty outside the weight table, the other
\* with right and wrong answers
C7_Witness ==
    /\ KeyLF2 \in DOMAIN ProfileNow
    /\ KeyLF1 \in DOMAIN ProfileNow
    /\ ProfileNow[KeyLF1].n >= 3
    /\ ProfileNow[KeyLF1].accuracy \in 1..99
    /\ \E i \in 1..Len(attempts) : attempts[i].difficulty = 4

(***************************************************************************)
(* C8: for the user of a session and a key the user has no attempt row     *)
(* for, the record shown is accuracy 0.0, level 1, n 0 and the target      *)
(* level of practice is 1; a practice flow started for such a field        *)
(* begins with an item whose difficulty is nearest to 1 among the items    *)
(* of the pool that are no cases.                                          *)
(***************************************************************************)
C8_Keys == {<<f, FACH>> : f \in Range(LEARN_FIELDS)} \cup
           {<<GLOBAL, d>> : d \in Range(GLOBAL_DOMAINS)}

C8_Pool(field_id, topic) ==
    LET ofField == {it \in Range(lf_items) : IsFach(it, field_id)}
        ofTopic == {it \in ofField : it.topic = topic}
    IN  IF ofTopic # {} THEN ofTopic ELSE ofField

C8_DefaultShown ==
    \A s \in Sessions : \A lg \in Logins(sidebar[s], session_state[s]) :
        \A key \in C8_Keys :
            RowsOf(attempts, lg.user_id, key) = {} =>
                LET prof == ProfileOf(attempts, lg.user_id)
                IN  /\ ProfileGet(prof, key) = [accuracy |-> 0, level |-> 1, n |-> 0]
                    /\ key[2] = FACH => PracticeTarget(prof, key[1]) = 1

RoundTripPost(item, correct) ==
    LET key  == <<item.field, item.domain>>
        old  == ProfileGet(ProfileNow, key)
        w    == ExactW(attempts, ProfileUser, key) + Tenths(item.difficulty)
        c    == ExactC(attempts, ProfileUser, key)
                  + (IF correct THEN Tenths(item.difficulty) ELSE 0)
        prof == ProfileOf(attempts', ProfileUser)
    IN  /\ key \in DOMAIN prof
        /\ prof[key].n = old.n + 1
        /\ 2 * (100 * c - prof[key].accuracy * w) <= w
        /\ 2 * (prof[key].accuracy * w - 100 * c) <= w
        /\ (old.n = 0 /\ item.difficulty = 1 /\ correct)
              => prof[key] = [accuracy |-> 100, level |-> 3, n |-> 1]

C9_RecordThenEstimate ==
    [][\A in \in ProfileInputs : Record(in[1], in[2]) => RoundTripPost(in[1], in[2])]_vars

C9_Witness ==
    /\ Len(attempts) = 1
    /\ attempts[1].difficulty = 1 /\ attempts[1].correct = 1
    /\ ProfileNow[KeyLF1] = [accuracy |-> 100, level |-> 3, n |-> 1]

(***************************************************************************)
(* C10: the accuracy of a key is the ratio (sum of weight x correct) /     *)
(* (sum of weight) with the weights 1.0, 1.3, 1.7 (to two decimals), and   *)
(* the level is taken from that ratio: below 0.45 level 1, between 0.45    *)
(* and 0.75 level 2, above 0.75 level 3.  Two right answers of difficulty  *)
(* 1 and a wrong one of difficulty 2 give 2.0/3.3 = 0.61 and level 2.      *)
(***************************************************************************)
C10_Scenario ==
    /\ Len(attempts) = 3
    /\ \A i \in 1..3 : RowKey(attempts[i]) = KeyLF1
    /\ Cardinality({i \in 1..3 : attempts[i].difficulty = 1 /\ attempts[i].correct = 1}) = 2
    /\ Cardinality({i \in 1..3 : attempts[i].difficulty = 2 /\ attempts[i].correct = 0}) = 1

C10_WeightedRatio ==
    /\ \A key \in DOMAIN ProfileNow :
          LET w == ExactW(attempts, ProfileUser, key)
              c == ExactC(attempts, ProfileUser, key)
              r == ProfileNow[key]
          IN  /\ 2 * (100 * c - r.accuracy * w) <= w
              /\ 2 * (r.accuracy * w - 100 * c) <= w
              /\ 20 * c < 9 * w => r.level = 1
              /\ (20 * c > 9 * w /\ 4 * c < 3 * w) => r.level = 2
              /\ 4 * c > 3 * w => r.level = 3
    /\ C10_Scenario =>
          /\ ExactC(attempts, ProfileUser, KeyLF1) = 20
          /\ ExactW(attempts, ProfileUser, KeyLF1) = 33
          /\ ProfileNow[KeyLF1] = [accuracy |-> 61, level |-> 2, n |-> 3]

C10_Witness == C10_Scenario /\ ProfileNow[KeyLF1].accuracy = 61

(***************************************************************************)
(* What the claims about selection are stated with                         *)
(***************************************************************************)
\* the items of the bank a selection for SelectField may take
Eligible(items) == SelectSeq(items, LAMBDA it : IsFach(it, SelectField))

\* no id occurs twice in the sequence of items
NoIdTwice(seq) == \A i, j \in 1..Len(seq) : i # j => seq[i].id # seq[j].id

Distance(it, target) == Abs(it.difficulty - target)

(***************************************************************************)
(* C11: for every item bank with unique ids, every seen-set and every      *)
(* k >= 0, what pick_adaptive and pick_practice_sequence return has at     *)
(* most k items and no item id twice.                                      *)
(***************************************************************************)
C11_AtMostKNoRepeat ==
    selection.fn \in {"pick_adaptive", "pick_practice_sequence"} =>
        /\ Len(selection.result) <= selection.k
        /\ NoIdTwice(selection.result)

\* pick_adaptive was called with k = 2 and a seen item on a bank of three
\* eligible items, and returned two of them
C11_Witness ==
    /\ selection.fn = "pick_adaptive"
    /\ Len(Eligible(selection.items)) = 3
    /\ selection.seen # {}
    /\ selection.k = 2
    /\ Len(selection.result) = 2

(***************************************************************************)
(* C12: when random.random() returns 0 and the candidates are all seen or  *)
(* all unseen, pick_adaptive prefers the smaller distance                  *)
(* |difficulty - target level|: no item of its result has a larger         *)
(* distance than an eligible item (same field, domain FACH) it left out.   *)
(***************************************************************************)
SeenStatusEqual ==
    LET ids == IdsOf(Eligible(selection.items))
    IN  ids \cap selection.seen = {} \/ ids \subseteq selection.seen

C12_PrefersSmallerDistance ==
    (selection.fn = "pick_adaptive" /\ selection.jitter0 /\ SeenStatusEqual) =>
        LET target == AdaptiveTarget(selection.profile, selection.field_id)
        IN  \A x \in Range(selection.result) :
                \A y \in Range(Eligible(selection.items)) \ Range(selection.result) :
                    Distance(x, target) <= Distance(y, target)

\* the bank holds the distances 2, 1, 0 in this order, nothing is seen, k = 2:
\* the result is the item of distance 0, then the item of distance 1
C12_Witness ==
    /\ selection.fn = "pick_adaptive"
    /\ selection.jitter0
    /\ selection.seen = {}
    /\ selection.k = 2
    /\ Len(Eligible(selection.items)) = 3
    /\ [i \in 1..3 |-> Distance(Eligible(selection.items)[i],
                                AdaptiveTarget(selection.profile, selection.field_id))]
         = <<2, 1, 0>>
    /\ [i \in 1..Len(selection.result) |-> selection.result[i].id] = <<"i3", "i2">>

(***************************************************************************)
(* C13: when the scope (the field, and the topic where given) has no item  *)
(* at the target level, the selection returns something and falls back in  *)
(* the priority level 2, level 1, level 3: no item of the result has a     *)
(* later place in this priority than an item of the scope it left out.     *)
(***************************************************************************)
\* the scope of the call: the pool of pick_practice_sequence is the topic's
\* items, or the field's when the topic has none
Scope ==
    LET ofTopic == SelectSeq(Eligible(selection.items),
                             LAMBDA it : it.topic = selection.topic)
    IN  IF selection.fn = "pick_practice_sequence" /\ ofTopic # <<>>
        THEN ofTopic ELSE Eligible(selection.items)

\* the declared priority of the fallback: level 2, then 1, then 3
FallbackRank(level) == IF level = 2 THEN 1 ELSE IF level = 1 THEN 2 ELSE 3

C13_FallbackPriority ==
    LET target == AdaptiveTarget(selection.profile, selection.field_id)
    IN  (/\ selection.fn \in {"pick_adaptive", "pick_practice_sequence"}
         /\ selection.k >= 1
         /\ Scope # <<>>
         /\ \A it \in Range(Scope) : it.difficulty # target) =>
            /\ selection.result # <<>>
            /\ \A x \in Range(selection.result) :
                   \A y \in Range(Scope) \ Range(selection.result) :
                       FallbackRank(x.difficulty) <= FallbackRank(y.difficulty)

(***************************************************************************)
(* C14: for a field without a FACH item pick_lf, pick_adaptive and         *)
(* pick_practice_sequence return the empty sequence, and a flow started    *)
(* with it leaves the session not started: no item on the page, no attempt *)
(* logged, index 0.  When only the chosen topic has no item,               *)
(* pick_practice_sequence returns items of the field.                      *)
(***************************************************************************)
FachItemsOf(field_id) ==
    {it \in Range(lf_items) : it.field = field_id /\ it.domain = FACH}

\* the selection functions on the data of the state
C14_EmptyReturned ==
    \A s \in Sessions : \A lg \in Logins(sidebar[s], session_state[s]) :
        \A field_id \in FieldChoices :
            FachItemsOf(field_id) = {} =>
                LET at == get_attempts(attempts, lg.user_id, None)
                    p  == compute_profile(at)
                IN  /\ pick_lf(lf_items, field_id, 6) = {<<>>}
                    /\ \A k \in 0..MaxBank :
                          pick_adaptive(lf_items, p, field_id,
                                        {at[i].item_id : i \in 1..Len(at)}, k) = {<<>>}
                    /\ \A topic \in {"T1", "Allgemein"} :
                          pick_practice_sequence(lf_items, p, at, field_id, topic, 10) = {<<>>}

\* a session whose last start had no item to show
C14_NotStarted ==
    \A s \in Sessions :
        (run_log[s].op \in {"start_lf", "start_practice"} /\ run_log[s].items = <<>>) =>
            /\ session_state[s].flow_items = <<>>
            /\ session_state[s].flow_i = 0
            /\ run_log[s].logged = <<>>
            /\ ResponsesNow(s) = {}

C14_EmptyPool ==
    /\ [](C14_EmptyReturned /\ C14_NotStarted)
    /\ [][\A s \in Sessions, field_id \in FieldChoices, chosen_topic \in {None, "T1"},
             easy_mode \in BOOLEAN :
             /\ (/\ FachItemsOf(field_id) = {}
                 /\ run_log'[s].op \in {"start_lf", "start_practice"}
                 /\ \/ StartFachdiag(s, field_id)
                    \/ StartPractice(s, field_id, chosen_topic, easy_mode)) =>
                    /\ session_state'[s].flow_items = <<>>
                    /\ session_state'[s].flow_i = 0
                    /\ run_log'[s].items = <<>>
                    /\ attempts' = attempts
             /\ (/\ FachItemsOf(field_id) # {}
                 /\ run_log'[s].op = "start_practice"
                 /\ \A it \in FachItemsOf(field_id) :
                       it.topic # session_state'[s].practice_topic
                 /\ StartPractice(s, field_id, chosen_topic, easy_mode)) =>
                    /\ session_state'[s].flow_items # <<>>
                    /\ Range(session_state'[s].flow_items) \subseteq FachItemsOf(field_id)]_vars

\* practice was started for LF3, a field without items
C14_Witness ==
    /\ run_log["s1"].op = "start_practice"
    /\ run_log["s1"].items = <<>>
    /\ session_state["s1"].flow_mode = "practice"
    /\ session_state["s1"].flow_field = "LF3"
    /\ session_state["s1"].flow_items = <<>>

(***************************************************************************)
(* C15: a learn-field diagnostic (lf_diag) or a practice flow is started   *)
(* only in a state where the student has completed the basis diagnostic:   *)
(* the student has an attempt row in each of the global domains SPR, KOG,  *)
(* META and MOT.                                                           *)
(***************************************************************************)
C15_LockedUntilBasisDone ==
    [][\A s \in Sessions, field_id \in FieldChoices, chosen_topic \in {None, "T1"},
          easy_mode \in BOOLEAN :
          (/\ run_log'[s].op \in {"start_lf", "start_practice"}
           /\ \/ StartFachdiag(s, field_id)
              \/ StartPractice(s, field_id, chosen_topic, easy_mode)) =>
              \A lg \in Logins(sidebar[s], session_state[s]) :
                  \A dom \in Range(GLOBAL_DOMAINS) :
                      RowsOf(attempts, lg.user_id, <<GLOBAL, dom>>) # {}]_vars

(***************************************************************************)
(* C16: for every k >= 1, when the pool of pick_practice_sequence (the     *)
(* items of the field and topic, or all FACH items of the field when the   *)
(* topic has none) holds a case, the last item of the returned sequence is *)
(* a case and no earlier item is one.                                      *)
(***************************************************************************)
C16_EndsWithCase ==
    (/\ selection.fn = "pick_practice_sequence"
     /\ selection.k >= 1
     /\ \E it \in Range(Scope) : it.type = "case") =>
        LET result == selection.result
        IN  /\ result # <<>>
            /\ result[Len(result)].type = "case"
            /\ \A i \in 1..(Len(result) - 1) : result[i].type # "case"

(***************************************************************************)
(* C17: with two sessions on one data base in any interleaving, every      *)
(* write is an append and no row is updated: the rows of attempts and      *)
(* materials stay as they are, and no step of a session changes a row      *)
(* (of users or topic_texts) that the other session wrote.                 *)
(***************************************************************************)
\* seq is the beginning of the sequence seq2
IsPrefix(seq, seq2) == Len(seq) <= Len(seq2) /\ SubSeq(seq2, 1, Len(seq)) = seq

C17_NoLostWrite ==
    [][/\ IsPrefix(attempts, attempts')
       /\ IsPrefix(materials, materials')
       /\ \A s, t \in Sessions :
             (s # t /\ run_log'[s].runs # run_log[s].runs) =>
                 \A w \in run_log[t].wrote :
                     IF w[1] = "users"
                     THEN users'[w[2]] = users[w[2]]
                     ELSE topic_texts'[w[2]] = topic_texts[w[2]]]_vars

(***************************************************************************)
(* C18: the diagnostic selection (pick_global, pick_lf) for a topic with   *)
(* an item in every skill area returns an item of every skill area of the  *)
(* topic when the count n is at least the number of skill areas.  (Both    *)
(* functions have no argument for the student's level.)                    *)
(***************************************************************************)
\* the skill areas (domains) in which the topic of the call has items
SkillAreas ==
    IF selection.fn = "pick_global"
    THEN {it.domain : it \in Range(GLOBAL_ITEMS)}
    ELSE {it.domain : it \in {x \in Range(selection.items) : x.field = selection.field_id}}

C18_EverySkillArea ==
    (/\ selection.fn \in {"pick_global", "pick_lf"}
     /\ SkillAreas # {}
     /\ selection.k >= Cardinality(SkillAreas)) =>
        \A area \in SkillAreas : \E it \in Range(selection.result) : it.domain = area

(***************************************************************************)
(* What the claims about the scoring of answers are stated with            *)
(***************************************************************************)
\* the keyword stands in the text at some place
Occurs(kw, txt) ==
    \E i \in 0..(Len(txt) - Len(kw)) : \A j \in 1..Len(kw) : txt[i + j] = kw[j]

\* the number of keywords of the list that stand in the lower-cased text
HitCount(kws, txt) == Cardinality({i \in 1..Len(kws) : Occurs(kws[i], Lower(txt))})

\* the length of the text without the blanks before and after it
TrimmedLen(txt) ==
    LET inked == {i \in 1..Len(txt) : txt[i] # " "}
    IN  IF inked = {} THEN 0
        ELSE (CHOOSE i \in inked : \A j \in inked : j <= i)
             - (CHOOSE i \in inked : \A j \in inked : j >= i) + 1

\* the row log_attempt writes for the user, the item and the result
StoredAs(user_id, item, correct) ==
    [user_id |-> user_id, class_code |-> CLASS_CODE, item_id |-> item.id,
     field_id |-> item.field, domain_id |-> item.domain, difficulty |-> item.difficulty,
     correct |-> IF correct THEN 1 ELSE 0]

\* "Ich helfe beim Waschen" against [ich, helfe, waschen, jetzt]
ScenarioText ==
    <<"I", "c", "h", " ", "h", "e", "l", "f", "e", " ", "b", "e", "i", "m", " ",
      "W", "a", "s", "c", "h", "e", "n">>

ScenarioKeywords ==
    <<<<"i", "c", "h">>, <<"h", "e", "l", "f", "e">>,
      <<"w", "a", "s", "c", "h", "e", "n">>, <<"j", "e", "t", "z", "t">>>>

(***************************************************************************)
(* C19: the answer to a short item is stored as correct iff, with a        *)
(* keyword list, at least max(1, len(keywords) // 4) keywords stand in the *)
(* lower-cased text and, without keywords, the trimmed text is longer than *)
(* 10 characters.  "Ich helfe beim Waschen" against [ich, helfe, waschen,  *)
(* jetzt] has 3 hits, the threshold is 1, and it is stored as correct.     *)
(***************************************************************************)
C19_ShortCorrect(item, txt) ==
    IF item.keywords # <<>>
    THEN HitCount(item.keywords, txt) >= Max(1, Len(item.keywords) \div 4)
    ELSE TrimmedLen(txt) > 10

C19_ShortAnswerScoring ==
    [][\A s \in Sessions : \A txt \in AnswerTexts :
          (/\ session_state[s].flow_items # <<>>
           /\ CurrentItem(s).type = "short"
           /\ SubmitAnswer(s, [text |-> txt])) =>
              /\ \E lg \in Logins(sidebar[s], session_state[s]) :
                    attempts' = Append(attempts,
                        StoredAs(lg.user_id, CurrentItem(s),
                                 C19_ShortCorrect(CurrentItem(s), txt)))
              /\ (CurrentItem(s).keywords = ScenarioKeywords /\ txt = ScenarioText) =>
                    /\ HitCount(ScenarioKeywords, txt) = 3
                    /\ Max(1, Len(ScenarioKeywords) \div 4) = 1
                    /\ attempts'[Len(attempts')].correct = 1]_vars

\* the answer to the short item with the four keywords of the scenario was
\* stored as correct
C19_Witness ==
    /\ run_log["s1"].op = "completed"
    /\ run_log["s1"].items # <<>>
    /\ run_log["s1"].items[1].type = "short"
    /\ run_log["s1"].items[1].keywords = ScenarioKeywords
    /\ attempts[Len(attempts)].item_id = run_log["s1"].items[1].id
    /\ attempts[Len(attempts)].correct = 1

(***************************************************************************)
(* C20: an ordering answer that is a complete permutation of the steps is  *)
(* stored as correct iff at every position p the submitted step is         *)
(* steps[correct_order[p]], i.e. the position matches are as many as the   *)
(* steps.  Steps [A,B,C,D] with correct order [1,0,2,3]: the submission    *)
(* [B,A,C,D] is stored as correct.                                         *)
(***************************************************************************)
\* the positions at which the submitted step is the step the order asks for
C20_Matches(item, chosen) ==
    {p \in 1..Len(item.steps) : chosen[p] = item.steps[item.correct_order[p] + 1]}

\* the submissions that use every step of the item once
C20_Permutations(item) ==
    {[p \in 1..Len(item.steps) |-> item.steps[q[p] + 1]] : q \in Orders(Len(item.steps))}

C20_OrderAnswerScoring ==
    [][\A s \in Sessions :
          (session_state[s].flow_items # <<>> /\ CurrentItem(s).type = "order") =>
              \A chosen \in C20_Permutations(CurrentItem(s)) :
                  SubmitAnswer(s, [order_steps |-> chosen]) =>
                      /\ \E lg \in Logins(sidebar[s], session_state[s]) :
                            attempts' = Append(attempts,
                                StoredAs(lg.user_id, CurrentItem(s),
                                         Cardinality(C20_Matches(CurrentItem(s), chosen))
                                             = Len(CurrentItem(s).steps)))
                      /\ (/\ CurrentItem(s).steps = <<"A", "B", "C", "D">>
                          /\ CurrentItem(s).correct_order = <<1, 0, 2, 3>>
                          /\ chosen = <<"B", "A", "C", "D">>) =>
                             /\ Cardinality(C20_Matches(CurrentItem(s), chosen)) = 4
                             /\ attempts'[Len(attempts')].correct = 1]_vars

\* the answer to the ordering item of the scenario was stored as correct
C20_Witness ==
    /\ run_log["s1"].op = "completed"
    /\ run_log["s1"].items # <<>>
    /\ run_log["s1"].items[1].type = "order"
    /\ run_log["s1"].items[1].steps = <<"A", "B", "C", "D">>
    /\ run_log["s1"].items[1].correct_order = <<1, 0, 2, 3>>
    /\ attempts[Len(attempts)].item_id = run_log["s1"].items[1].id
    /\ attempts[Len(attempts)].correct = 1

(***************************************************************************)
(* C21: pick_practice_sequence returns a mixed sequence.  With m the       *)
(* number of item types of the non-case items of the chosen pool and       *)
(* need = max(1, k-1), the non-case part of the returned sequence holds at *)
(* least min(m, 4, need) item types.  As stated, for every k, the count 0  *)
(* included (C21_MixedForEveryK); for every k >= 1 (C21_MixedSequence).    *)
(***************************************************************************)
QuizTypes(seq) == {seq[i].type : i \in {j \in 1..Len(seq) : seq[j].type # "case"}}

MixedEnough ==
    Cardinality(QuizTypes(selection.result))
        >= Min(Cardinality(QuizTypes(Scope)), Min(4, Max(1, selection.k - 1)))

C21_MixedForEveryK ==
    selection.fn = "pick_practice_sequence" => MixedEnough

C21_MixedSequence ==
    (selection.fn = "pick_practice_sequence" /\ selection.k >= 1) => MixedEnough

\* five types in the pool and five items needed: the fifth item is of a type
\* that is picked already, and an item skipped before fills the sequence up
C21_Witness ==
    /\ selection.fn = "pick_practice_sequence"
    /\ selection.k >= 6
    /\ Cardinality(QuizTypes(Scope)) = 5
    /\ Cardinality(QuizTypes(selection.result)) = 4
    /\ \E i, j \in 1..Len(selection.result) :
          /\ i + 1 < j
          /\ selection.result[i].type = selection.result[j].type
          /\ selection.result[j - 1].type # "case"
          /\ selection.result[i].type # selection.result[j - 1].type

(***************************************************************************)
(* C22: in every reachable state of a session, whenever a flow is active   *)
(* (flow_items is not empty) the index satisfies                           *)
(* 0 <= flow_i < len(flow_items), so the item flow_items[flow_i] exists.   *)
(* This holds after every sequence of flow starts, a start while another   *)
(* flow is in progress included, accepted answers and rejected answers.    *)
(***************************************************************************)
C22_IndexInRange ==
    \A s \in Sessions :
        session_state[s].flow_items # <<>> =>
            /\ 0 <= session_state[s].flow_i
            /\ session_state[s].flow_i < Len(session_state[s].flow_items)

\* an answer of a basis flow of two or three items was accepted, the
\* diagnostic of a learn field was started while that flow was at its second
\* item, and an answer of the new flow was accepted
C22_Witness ==
    \E s \in Active :
        /\ Len(attempts) = Len(StoredAttempts) + 2
        /\ attempts[Len(StoredAttempts) + 1].field_id = GLOBAL
        /\ attempts[Len(StoredAttempts) + 2].field_id = session_state[s].flow_field
        /\ session_state[s].flow_mode = "lf_diag"
        /\ session_state[s].flow_i = 1
        /\ Len(session_state[s].flow_items) > 1
        /\ run_log[s].op = "accepted"

(***************************************************************************)
(* C23: every started flow over N >= 1 items ends.  When the student keeps *)
(* submitting valid answers and starts no other flow, the flow is          *)
(* completed eventually, by the N-th accepted answer and not before: the   *)
(* attempts logged since the start are those of the N items in their       *)
(* order.  On completion the session is back in NotStarted: flow_items is  *)
(* empty, flow_i is 0, and flow_mode, flow_field and flow_dom are None.    *)
(***************************************************************************)
LoggedOf(s, n) == [i \in 1..n |-> run_log[s].items[i].id]

C23_Completed(s) ==
    /\ run_log[s].op = "completed"
    /\ run_log[s].items # <<>>
    /\ run_log[s].logged = LoggedOf(s, Len(run_log[s].items))
    /\ session_state[s].flow_items = <<>>
    /\ session_state[s].flow_i = 0
    /\ session_state[s].flow_mode = None
    /\ session_state[s].flow_field = None
    /\ session_state[s].flow_dom = None

C23_InProgress(s) ==
    /\ run_log[s].op # "completed"
    /\ session_state[s].flow_items = run_log[s].items
    /\ session_state[s].flow_i < Len(run_log[s].items)
    /\ run_log[s].logged = LoggedOf(s, session_state[s].flow_i)

C23_FlowTerminates ==
    /\ [](\A s \in Active :
             /\ session_state[s].flow_items # <<>> => C23_InProgress(s)
             /\ run_log[s].op = "completed" => C23_Completed(s))
    /\ \A s \in Active :
          (session_state[s].flow_items # <<>>) ~> C23_Completed(s)

\* a flow of three items was completed although an answer was turned away
C23_Witness ==
    \E s \in Active :
        /\ C23_Completed(s)
        /\ Len(run_log[s].items) = 3
        /\ run_log[s].warned

(***************************************************************************)
(* C24: the unlock of the learn fields is monotonic and decided by the     *)
(* count of the student's own GLOBAL attempts alone.  global_done is true  *)
(* iff the student has at least 8 attempt rows with field GLOBAL; once it  *)
(* is true for a student it is true in every later state; and no step      *)
(* puts a session at the start of a flow of the basis diagnostic while the *)
(* student of the session has 8 GLOBAL rows or more.                       *)
(***************************************************************************)
GlobalRows(tbl, user_id) ==
    {i \in 1..Len(tbl) : tbl[i].user_id = user_id /\ tbl[i].field_id = GLOBAL}

Unlocked(tbl, user_id) == Cardinality(GlobalRows(tbl, user_id)) >= 8

\* the ids a run of the script can run under
UserIds == UidInputs \cup AutoIds \cup {DefaultUid(role) : role \in Roles}

GlobalModes == {GlobalMode(dom) : dom \in Range(GLOBAL_DOMAINS)}

\* the step puts session s at the first item of a flow of the basis diagnostic
GlobalFlowStarted(s) ==
    /\ session_state'[s].flow_mode \in GlobalModes
    /\ session_state'[s].flow_items # <<>>
    /\ session_state'[s].flow_i = 0
    /\ \/ session_state'[s].flow_items # session_state[s].flow_items
       \/ session_state'[s].flow_i # session_state[s].flow_i
       \/ session_state'[s].flow_mode # session_state[s].flow_mode

C24_UnlockMonotonic ==
    /\ [](\A u \in UserIds : global_done(attempts, u) <=> Unlocked(attempts, u))
    /\ [][/\ \A u \in UserIds : Unlocked(attempts, u) => Unlocked(attempts', u)
          /\ \A s \in Sessions :
                GlobalFlowStarted(s) =>
                    \A lg \in Logins(sidebar'[s], session_state'[s]) :
                        ~Unlocked(attempts, lg.user_id)]_vars

\* the eighth and the ninth GLOBAL attempt of the student were logged by the
\* flow of the basis diagnostic that the session is still in
C24_Witness ==
    \E s \in Active :
        /\ \A lg \in Logins(sidebar[s], session_state[s]) :
              Cardinality(GlobalRows(attempts, lg.user_id)) = 9
        /\ session_state[s].flow_mode \in GlobalModes
        /\ session_state[s].flow_items # <<>>
        /\ run_log[s].op = "accepted"
        /\ Len(run_log[s].logged) = 2

====
